---- MODULE Spec2Model ----
(***************************************************************************)
(* VertexDB (salarizadi/vertex-db): the in-memory table store of           *)
(* src/unnamed/part_000, as a state machine.                               *)
(*                                                                         *)
(* JavaScript values are records [k, n, s]: k is the kind, n the number,   *)
(* s the characters of a string.  Rows are records over Fields; a field    *)
(* holding Undef is a property the row does not have.  Arrays that the     *)
(* code shares by reference (the row array of a table, the relationship    *)
(* list of a table) live in a heap and are named by references, so that    *)
(* an in-place push is seen through every reference to the array.          *)
(***************************************************************************)
EXTENDS Integers, Sequences, FiniteSets, TLC

\* ------------------------------------------------------------------ bounds

\* Rows a table may hold.
MaxRows == 2
\* Pending where-conditions.
MaxConds == 2
\* Nesting depth of transaction() calls.
MaxDepth == 2
\* Entries of one relationship list.
MaxRels == 1

\* ------------------------------------------------------- JavaScript values

Undef == [k |-> "undefined", n |-> 0, s |-> <<>>]
Null == [k |-> "null", n |-> 0, s |-> <<>>]
NaN == [k |-> "nan", n |-> 0, s |-> <<>>]
Num(i) == [k |-> "number", n |-> i, s |-> <<>>]
Str(cs) == [k |-> "string", n |-> 0, s |-> cs]
Bool(b) == [k |-> "boolean", n |-> IF b THEN 1 ELSE 0, s |-> <<>>]

\* typeof v
TypeOf(v) ==
    CASE v.k = "undefined" -> "undefined"
      [] v.k = "null" -> "object"
      [] v.k = "nan" -> "number"
      [] OTHER -> v.k

Digits == <<"0", "1", "2", "3", "4", "5", "6", "7", "8", "9">>

IsDigit(c) == \E i \in 1..10 : Digits[i] = c

DigitVal(c) == (CHOOSE i \in 1..10 : Digits[i] = c) - 1

\* Code units of the characters the model uses, in the order JavaScript
\* compares strings ('%' < '-' < digits < '@' < upper case < '_' < lower case).
Alphabet ==
    <<"%", "-", "0", "1", "2", "3", "4", "5", "6", "7", "8", "9", "@",
      "A", "C", "E", "I", "M", "N", "O", "R", "T", "U", "_",
      "a", "b", "d", "e", "f", "i", "l", "n", "u", "x", "y">>

CharCode(c) == CHOOSE i \in 1..Len(Alphabet) : Alphabet[i] = c

\* c.toLowerCase()
LowerChar(c) ==
    CASE c = "A" -> "a"
      [] c = "E" -> "e"
      [] c = "I" -> "i"
      [] c = "N" -> "n"
      [] c = "U" -> "u"
      [] OTHER -> c

ToLower(cs) == [i \in 1..Len(cs) |-> LowerChar(cs[i])]

RECURSIVE NatToChars(_)
NatToChars(i) ==
    IF i < 10 THEN <<Digits[i + 1]>>
    ELSE NatToChars(i \div 10) \o <<Digits[(i % 10) + 1]>>

\* String(v)
ToStr(v) ==
    CASE v.k = "string" -> v.s
      [] v.k = "number" ->
            IF v.n < 0 THEN <<"-">> \o NatToChars(-v.n) ELSE NatToChars(v.n)
      [] v.k = "undefined" -> <<"u", "n", "d", "e", "f", "i", "n", "e", "d">>
      [] v.k = "null" -> <<"n", "u", "l", "l">>
      [] v.k = "nan" -> <<"N", "a", "N">>
      [] OTHER -> IF v.n = 1 THEN <<"t", "r", "u", "e">>
                  ELSE <<"f", "a", "l", "s", "e">>

RECURSIVE DigitsToNat(_, _)
DigitsToNat(cs, acc) ==
    IF cs = <<>> \/ ~IsDigit(Head(cs)) THEN acc
    ELSE DigitsToNat(Tail(cs), 10 * acc + DigitVal(Head(cs)))

\* parseInt(v): the leading integer of String(v), NaN when there is none.
ParseInt(v) ==
    LET cs == ToStr(v)
        neg == cs # <<>> /\ Head(cs) = "-"
        ds == IF neg THEN Tail(cs) ELSE cs
    IN  IF ds = <<>> \/ ~IsDigit(Head(ds)) THEN NaN
        ELSE Num((IF neg THEN -1 ELSE 1) * DigitsToNat(ds, 0))

\* !!v
Truthy(v) ==
    CASE v.k = "string" -> v.s # <<>>
      [] v.k = "number" -> v.n # 0
      [] v.k = "boolean" -> v.n = 1
      [] OTHER -> FALSE

\* a || b
OrElse(a, b) == IF Truthy(a) THEN a ELSE b

\* Number(v), for a value that is compared with a number.
ToNumber(v) ==
    CASE v.k = "number" -> v
      [] v.k = "null" -> Num(0)
      [] v.k = "boolean" -> Num(v.n)
      [] v.k = "string" ->
            IF v.s = <<>> THEN Num(0)
            ELSE IF \A i \in 1..Len(v.s) : IsDigit(v.s[i])
                 THEN Num(DigitsToNat(v.s, 0))
                 ELSE NaN
      [] OTHER -> NaN

RECURSIVE StrLess(_, _)
StrLess(x, y) ==
    IF y = <<>> THEN FALSE
    ELSE IF x = <<>> THEN TRUE
    ELSE IF Head(x) = Head(y) THEN StrLess(Tail(x), Tail(y))
    ELSE CharCode(Head(x)) < CharCode(Head(y))

\* a < b
JsLess(a, b) ==
    IF a.k = "string" /\ b.k = "string" THEN StrLess(a.s, b.s)
    ELSE LET x == ToNumber(a)
             y == ToNumber(b)
         IN  x.k = "number" /\ y.k = "number" /\ x.n < y.n

\* a > b
JsGreater(a, b) == JsLess(b, a)

\* a <= b
JsLessEq(a, b) ==
    IF a.k = "string" /\ b.k = "string" THEN ~StrLess(b.s, a.s)
    ELSE LET x == ToNumber(a)
             y == ToNumber(b)
         IN  x.k = "number" /\ y.k = "number" /\ x.n <= y.n

\* a >= b
JsGreaterEq(a, b) == JsLessEq(b, a)

\* a === b
StrictEq(a, b) == a.k # "nan" /\ a = b

\* SameValueZero(a, b), the comparison of Array.prototype.includes.
SameValueZero(a, b) == a = b

\* hay.includes(needle), for strings
Includes(hay, needle) ==
    \E i \in 0..Len(hay) :
        /\ i + Len(needle) <= Len(hay)
        /\ \A j \in 1..Len(needle) : hay[i + j] = needle[j]

\* pattern.replace(/%/g, '')
StripPercent(cs) == SelectSeq(cs, LAMBDA c : c # "%")

\* ------------------------------------------------------------------- domain

\* Table names the callers use.
NameSeq == <<"users", "posts", "users:old">>

Names == {NameSeq[i] : i \in 1..Len(NameSeq)}

\* The names without a colon.
Common == {"users", "posts"}

\* Row properties; a row is a record over Fields, Undef marking an absent one.
Fields == {"id", "age", "name", "created_at", "updated_at", "deleted_at"}

\* VertexDB.AUTO_INCREMENT
AUTO_INCREMENT ==
    Str(<<"A", "U", "T", "O", "_", "I", "N", "C", "R", "E", "M", "E", "N", "T">>)

\* The object literal {id, age, name}.
Row(id, age, name) ==
    [id |-> id, age |-> age, name |-> name,
     created_at |-> Undef, updated_at |-> Undef, deleted_at |-> Undef]

\* new Date().toISOString() at reading t of the clock.
IsoString(t) == Str(<<"T", Digits[t + 1]>>)

\* {...a, ...b}: the properties of b override those of a.
Spread(a, b) == [f \in Fields |-> IF b[f] # Undef THEN b[f] ELSE a[f]]

\* References to arrays: 0 is "no array" (an absent Map entry).
NumRefs == 2 * Cardinality(Names) * (2 + MaxDepth) + 1

Refs == 1..NumRefs

NoRefs == [n \in Names |-> 0]

\* The table -> rows mapping of no tables.
NoView == [has |-> {}, rows |-> [n \in Names |-> <<>>]]

\* A backup object; held is FALSE for the slot of a caller that holds none.
\* shape tells which parts the object has: "ok", "noData" or "noMetadata".
\* view and relView are not parts of the object: they note the table -> rows
\* and relationship mappings of the store when the object was made.
NoBackup ==
    [held |-> FALSE, shape |-> "ok", data |-> NoRefs,
     counts |-> [n \in Names |-> 0], relationships |-> NoRefs,
     view |-> NoView, relView |-> NoView]

\* Schemas: per field the rule set {required, type, min, max, length, pattern};
\* type "" , min/max/length 0 and pattern "" are rules that are not given.
NoRules ==
    [required |-> FALSE, type |-> "", min |-> 0, max |-> 0, length |-> 0,
     pattern |-> ""]

\* A schema is a sequence of <<field, rules>> in declaration order.
NoSchema == <<>>

\* The transient condition state after _resetConditions.
NoConditions ==
    [whereConditions |-> <<>>, operator |-> "AND", orderBy |-> <<>>,
     limit |-> Null, offset |-> 0, searchConditions |-> <<>>]

\* ------------------------------------------------------------------- state

VARIABLES
    tables,         \* this._tables: name -> reference of the row array, 0 absent
    relationships,  \* this._relationships: name -> reference of the list
    heap,           \* the arrays behind the references
    triggers,       \* this._triggers: name -> <<[name, fn]>> in creation order
    schemas,        \* this._schemas: [made, of]; made is FALSE while undefined
    indexes,        \* this._indexes: [made, entries], an entry is [key, index]
    conditions,     \* _whereConditions, _operator, _orderBy, _limit, ...
    timestamps,     \* this._timestamps
    softDelete,     \* this._softDelete
    lastError,      \* this._lastError
    lastInsertId,   \* this._lastInsertId
    snap,           \* the backup object the caller holds
    txn,            \* the transaction() calls in progress, innermost last
    last,           \* the call that returned or raised last, with its result
    assigned        \* name -> <<the greatest id AUTO_INCREMENT was given>>

\* What only the constructor sets, and what only insert() changes.
config == <<timestamps, softDelete>>

history == <<assigned>>

meta == <<triggers, schemas, indexes>>

store == <<tables, relationships, heap>>

vars ==
    <<tables, relationships, heap, triggers, schemas, indexes, conditions,
      timestamps, softDelete, lastError, lastInsertId, snap, txn, last,
      assigned>>

\* ------------------------------------------------------------------ helpers

Max(S) == CHOOSE x \in S : \A y \in S : y <= x

Range(f) == {f[x] : x \in DOMAIN f}

\* this._tables.has(name)
Has(name) == tables[name] # 0

\* this._tables.get(name), for a table that exists.
RowsOf(name) == heap[tables[name]]

\* The table -> rows mapping of the store.
TableView(tb, hp) ==
    [has |-> {n \in Names : tb[n] # 0},
     rows |-> [n \in Names |-> IF tb[n] = 0 THEN <<>> ELSE hp[tb[n]]]]

View == TableView(tables, heap)

RelView == TableView(relationships, heap)

\* The references held by the store, the caller's backup and the backups of
\* the transactions in progress, in a fixed order of the holders.
RECURSIVE FrameRoots(_)
FrameRoots(tx) ==
    IF tx = <<>> THEN <<>>
    ELSE [i \in 1..Len(NameSeq) |-> Head(tx).backup.data[NameSeq[i]]]
         \o [i \in 1..Len(NameSeq) |-> Head(tx).backup.relationships[NameSeq[i]]]
         \o FrameRoots(Tail(tx))

Roots(tb, rl, sn, tx) ==
    [i \in 1..Len(NameSeq) |-> tb[NameSeq[i]]]
    \o [i \in 1..Len(NameSeq) |-> rl[NameSeq[i]]]
    \o [i \in 1..Len(NameSeq) |-> sn.data[NameSeq[i]]]
    \o [i \in 1..Len(NameSeq) |-> sn.relationships[NameSeq[i]]]
    \o FrameRoots(tx)

Reachable(tb, rl, sn, tx) == Range(Roots(tb, rl, sn, tx)) \ {0}

\* A fresh array: a reference not in use (a new array is allocated while the
\* old ones are still referenced).
Fresh(used) == CHOOSE r \in Refs \ used : \A q \in Refs \ used : r <= q

InUse == Reachable(tables, relationships, snap, txn)

\* References are names of arrays and nothing observes the names: the state
\* keeps the arrays in use, named 1, 2, ... in the order of Roots.
Rank(roots, r) ==
    IF r = 0 THEN 0
    ELSE LET first == CHOOSE i \in 1..Len(roots) :
                        roots[i] = r /\ \A j \in 1..(i - 1) : roots[j] # r
         IN  Cardinality({roots[j] : j \in 1..(first - 1)} \ {0}) + 1

\* The next store: tables tb, relationships rl, heap hp, caller's backup sn and
\* transactions tx, with the arrays nothing refers to any more dropped.
Settle(tb, rl, hp, sn, tx) ==
    LET roots == Roots(tb, rl, sn, tx)
        live == Range(roots) \ {0}
        rank == [r \in live \cup {0} |-> Rank(roots, r)]
        named == [q \in 1..Cardinality(live) |-> CHOOSE r \in live : rank[r] = q]
        rename(b) == [b EXCEPT !.data = [n \in Names |-> rank[b.data[n]]],
                               !.relationships =
                                   [n \in Names |-> rank[b.relationships[n]]]]
    IN  /\ tables' = [n \in Names |-> rank[tb[n]]]
        /\ relationships' = [n \in Names |-> rank[rl[n]]]
        /\ heap' = [q \in Refs |-> IF q <= Cardinality(live) THEN hp[named[q]]
                                   ELSE <<>>]
        /\ snap' = rename(sn)
        /\ txn' = [i \in 1..Len(tx) |-> [tx[i] EXCEPT !.backup = rename(tx[i].backup)]]

\* The record of a call: op, table, the error raised ("" when it returned),
\* the returned value, the argument, and the rows of the table and the
\* condition state before the call; for transaction(), before is the
\* table -> rows mapping when it was entered and calls are the kinds of calls
\* its callback made.  fired lists the trigger invocations of the call, in
\* order: [name, operation, old, new]; triggers is the trigger registry
\* before the call.
Call(op, tbl, err, ret, arg) ==
    [op |-> op, tbl |-> tbl, err |-> err, ret |-> ret, arg |-> arg,
     before |-> IF tbl \in Names /\ Has(tbl) THEN RowsOf(tbl) ELSE <<>>,
     cond |-> conditions, calls |-> {}, fired |-> <<>>,
     triggers |-> triggers, left |-> NoView]

\* The calls a transaction callback has made so far are noted in its frame,
\* by kind: inserts that found their table, and every other call.
Note(what) ==
    IF txn = <<>> THEN txn
    ELSE [txn EXCEPT ![Len(txn)].calls =
            @ \cup {IF what = "insert" THEN "insert" ELSE "other"}]

\* --------------------------------------------------------------- conditions

\* One where-condition against one row: the switch of _applyConditions.
\* A condition is [field, operator, value, list]; list holds the elements
\* when value is an array.
Matches(row, c) ==
    LET v == row[c.field]
    IN  CASE c.operator = "IN" -> \E i \in 1..Len(c.list) : SameValueZero(c.list[i], v)
          [] c.operator = "LIKE" -> Includes(ToStr(v), StripPercent(c.value.s))
          [] c.operator = ">" -> JsGreater(v, c.value)
          [] c.operator = "<" -> JsLess(v, c.value)
          [] c.operator = ">=" -> JsGreaterEq(v, c.value)
          [] c.operator = "<=" -> JsLessEq(v, c.value)
          [] c.operator = "!=" -> ~StrictEq(v, c.value)
          [] OTHER -> StrictEq(v, c.value)

\* A variant of the where-step's test: some condition holds.
MatchesAny(row, cs) == \E i \in 1..Len(cs) : Matches(row, cs[i])

\* this._whereConditions.every(...) of _applyConditions.
MatchesAll(row, cs) == \A i \in 1..Len(cs) : Matches(row, cs[i])

\* this._searchConditions.some(...) of _applyConditions.
MatchesSearch(row, ss) ==
    \E i \in 1..Len(ss) :
        Includes(ToLower(ToStr(row[ss[i][1]])), ToLower(ToStr(ss[i][2])))

\* The comparator of results.sort: positive when a goes after b.
SortsAfter(a, b, ob) ==
    IF ob.direction = "ASC" THEN JsGreater(a[ob.column], b[ob.column])
    ELSE JsLess(a[ob.column], b[ob.column])

Orders(n) ==
    {p \in [1..n -> 1..n] : \A i, j \in 1..n : i # j => p[i] # p[j]}

\* The outcomes of results.sort(comparator).  The comparator never answers
\* 0, so it is not a consistent comparator and the order of rows it does not
\* separate is implementation-defined: every arrangement in which no row
\* stands before a row it sorts after is an outcome.
Sorts(rows, ob) ==
    IF ob = <<>> THEN {rows}
    ELSE {[i \in 1..Len(rows) |-> rows[p[i]]] : p \in
            {q \in Orders(Len(rows)) :
                \A i, j \in 1..Len(rows) :
                    i < j => ~SortsAfter(rows[q[i]], rows[q[j]], ob)}}

\* results.slice(from, to)
Slice(rows, from, to) ==
    LET lo == IF from < Len(rows) THEN from ELSE Len(rows)
        hi == IF to < Len(rows) THEN to ELSE Len(rows)
    IN  IF hi <= lo THEN <<>> ELSE SubSeq(rows, lo + 1, hi)

\* The where-step of _applyConditions.
WhereStep(data, cond) ==
    IF Len(cond.whereConditions) > 0
    THEN SelectSeq(data, LAMBDA row : MatchesAll(row, cond.whereConditions))
    ELSE data

\* The search-step of _applyConditions.
SearchStep(data, cond) ==
    IF Len(cond.searchConditions) > 0
    THEN SelectSeq(data, LAMBDA row : MatchesSearch(row, cond.searchConditions))
    ELSE data

\* The pagination step of _applyConditions.
PageStep(data, cond) ==
    IF cond.limit # Null
    THEN Slice(data, cond.offset, cond.offset + cond.limit.n)
    ELSE data

\* _applyConditions(data): the set of results it can return.
\* A variant of _applyConditions that takes the page before it filters.
applyConditionsSlicedFirst(data, cond) ==
    Sorts(SearchStep(WhereStep(PageStep(data, cond), cond), cond), cond.orderBy)

applyConditions(data, cond) ==
    {PageStep(sorted, cond) :
        sorted \in Sorts(SearchStep(WhereStep(data, cond), cond), cond.orderBy)}

\* A variant of the filter of get that keeps every row.
VisibleAll(rows, soft) == rows

\* The soft-delete filter of get.
Visible(rows, soft) ==
    IF soft THEN SelectSeq(rows, LAMBDA row : ~Truthy(row.deleted_at)) ELSE rows

\* get(tableName) on an existing table: the results it can return.
GetResults(rows, cond, soft) == applyConditions(Visible(rows, soft), cond)

\* A variant of _resetConditions that keeps the pagination.
resetWhereOnly ==
    [NoConditions EXCEPT !.limit = conditions.limit, !.offset = conditions.offset]

\* _resetConditions()
resetConditions == NoConditions

\* ------------------------------------------------------------------ triggers

\* The trigger callbacks the callers register, by what they do:
\*   "pass"     returns undefined,
\*   "veto"     returns false,
\*   "throws"   raises,
\*   "vetoAge1" returns false for a row whose age is 1 (of new, or of old on delete),
\*   "reads"    calls count() on the same handle and returns undefined,
\*   "zero"     returns 0,
\*   "null"     returns null.
TriggerFns == {"pass", "veto", "throws", "vetoAge1", "reads", "zero", "null"}

\* What the callback returns when it does not raise.
Returned(fn, operation, old, new) ==
    LET row == IF operation = "delete" THEN old ELSE new
    IN  CASE fn = "veto" -> Bool(FALSE)
          [] fn = "vetoAge1" ->
               IF StrictEq(row.age, Num(1)) THEN Bool(FALSE) ELSE Undef
          [] fn = "zero" -> Num(0)
          [] fn = "null" -> Null
          [] OTHER -> Undef

\* Variants of the test of _trigger: a falsy return value vetoes; a callback
\* that raises vetoes.
ReturnsFalsy(fn, operation, old, new) ==
    fn # "throws" /\ ~Truthy(Returned(fn, operation, old, new))

ReturnsFalseOrRaises(fn, operation, old, new) ==
    fn = "throws" \/ StrictEq(Returned(fn, operation, old, new), Bool(FALSE))

\* trigger({operation, OLD, NEW}) === false, inside the try block: a callback
\* that raises yields no value.
ReturnsFalse(fn, operation, old, new) ==
    fn # "throws" /\ StrictEq(Returned(fn, operation, old, new), Bool(FALSE))

\* The condition state after the callback ran.
AfterTrigger(fn, cond) == IF fn = "reads" THEN resetConditions ELSE cond

\* _trigger(tableName, operation, old, new) over the triggers ts: whether to
\* commit, the condition state the callbacks leave, and the invocations made.
RECURSIVE trigger(_, _, _, _, _)
trigger(ts, operation, old, new, cond) ==
    IF ts = <<>> THEN [commit |-> TRUE, cond |-> cond, log |-> <<>>]
    ELSE LET rest == trigger(Tail(ts), operation, old, new,
                             AfterTrigger(Head(ts).fn, cond))
         IN  [commit |-> rest.commit
                           /\ ~ReturnsFalse(Head(ts).fn, operation, old, new),
              cond |-> rest.cond,
              log |-> <<[name |-> Head(ts).name, operation |-> operation,
                         old |-> old, new |-> new]>> \o rest.log]

\* -------------------------------------------------------------------- schema

\* rules.pattern.test(String(v)) for the patterns the callers use:
\* "digits" is /^[0-9]+$/.
PatternTest(pattern, cs) ==
    IF pattern = "digits" THEN cs # <<>> /\ \A i \in 1..Len(cs) : IsDigit(cs[i])
    ELSE TRUE

\* The checks of _validateSchema on one field of one row, in the order of the
\* code: the rule violated first, "" when none is.
RuleViolated(v, rules) ==
    CASE rules.required /\ (v = Undef \/ v = Null) -> "required"
      [] rules.type # "" /\ TypeOf(v) # rules.type -> "type"
      [] rules.min # 0 /\ JsLess(v, Num(rules.min)) -> "min"
      [] rules.max # 0 /\ JsGreater(v, Num(rules.max)) -> "max"
      [] rules.length # 0 /\ Len(ToStr(v)) # rules.length -> "length"
      [] rules.pattern # "" /\ ~PatternTest(rules.pattern, ToStr(v)) -> "pattern"
      [] OTHER -> ""

RECURSIVE RowViolation(_, _)
RowViolation(row, schema) ==
    IF schema = <<>> THEN ""
    ELSE IF RuleViolated(row[Head(schema)[1]], Head(schema)[2]) # ""
         THEN RuleViolated(row[Head(schema)[1]], Head(schema)[2])
         ELSE RowViolation(row, Tail(schema))

\* _validateSchema(data, schema): the rule whose violation is raised, "" when
\* the call returns.
RECURSIVE validateSchema(_, _)
validateSchema(data, schema) ==
    IF data = <<>> THEN ""
    ELSE IF RowViolation(Head(data), schema) # ""
         THEN RowViolation(Head(data), schema)
         ELSE validateSchema(Tail(data), schema)

\* ------------------------------------------------------------ builder calls

\* this._whereConditions.push(c)
PushCondition(op, c) ==
    /\ Len(conditions.whereConditions) < MaxConds
    /\ conditions' =
         [conditions EXCEPT !.whereConditions = Append(@, c)]
    /\ last' = Call(op, "", "", Undef, c.value)
    /\ UNCHANGED <<store, meta, config, history, lastError, lastInsertId, snap, txn>>

\* An array given as a condition value; its elements are the condition's list.
ArrayValue == [k |-> "array", n |-> 0, s |-> <<>>]

\* where(field, value, operator = 'AND')
Where(field, value, operator) ==
    PushCondition("where",
        [field |-> field, operator |-> operator, value |-> value, list |-> <<>>])

\* orWhere(field, value)
OrWhere(field, value) ==
    PushCondition("orWhere",
        [field |-> field, operator |-> "OR", value |-> value, list |-> <<>>])

\* whereOperator(field, operator, value)
WhereOperator(field, operator, value) ==
    PushCondition("whereOperator",
        [field |-> field, operator |-> operator, value |-> value, list |-> <<>>])

\* whereIn(field, values), values an array
WhereIn(field, values) ==
    PushCondition("whereIn",
        [field |-> field, operator |-> "IN", value |-> ArrayValue, list |-> values])

\* whereLike(field, pattern)
WhereLike(field, pattern) ==
    PushCondition("whereLike",
        [field |-> field, operator |-> "LIKE", value |-> pattern, list |-> <<>>])

\* search(conditions): pairs is Object.entries of the {column: term} given.
Search(pairs) ==
    /\ conditions' = [conditions EXCEPT !.searchConditions = pairs]
    /\ last' = Call("search", "", "", Undef, Undef)
    /\ UNCHANGED <<store, meta, config, history, lastError, lastInsertId, snap, txn>>

\* orderBy(column, direction = 'ASC')
OrderBy(column, direction) ==
    /\ conditions' =
         [conditions EXCEPT !.orderBy = [column |-> column, direction |-> direction]]
    /\ last' = Call("orderBy", "", "", Undef, Undef)
    /\ UNCHANGED <<store, meta, config, history, lastError, lastInsertId, snap, txn>>

\* limit(limit, offset = 0)
Limit(limit, offset) ==
    /\ conditions' = [conditions EXCEPT !.limit = Num(limit), !.offset = offset]
    /\ last' = Call("limit", "", "", Undef, Num(limit))
    /\ UNCHANGED <<store, meta, config, history, lastError, lastInsertId, snap, txn>>

\* ------------------------------------------------------------ terminal reads

\* A terminal read built on get(tableName): get raises on an absent table
\* before it touches the conditions; otherwise the conditions are applied and
\* reset, and the method returns Result(results).
Read(op, tableName, arg, Result(_)) ==
    /\ IF ~Has(tableName)
       THEN /\ last' = Call(op, tableName, "TableNotFound", Undef, arg)
            /\ UNCHANGED conditions
       ELSE \E results \in GetResults(RowsOf(tableName), conditions, softDelete) :
              /\ last' = Call(op, tableName, "", Result(results), arg)
              /\ conditions' = resetConditions
    /\ txn' = Note(op)
    /\ UNCHANGED <<store, meta, config, history, lastError, lastInsertId, snap>>

\* get(tableName)
Get(tableName) == Read("get", tableName, Undef, LAMBDA rs : rs)

\* getOne(tableName)
GetOne(tableName) ==
    Read("getOne", tableName, Undef, LAMBDA rs : IF Len(rs) > 0 THEN rs[1] ELSE Null)

\* count(tableName)
Count(tableName) == Read("count", tableName, Undef, LAMBDA rs : Num(Len(rs)))

\* An exists that tells whether the table exists.
ExistsTable(tableName) == Read("exists", tableName, Undef, LAMBDA rs : Bool(TRUE))

\* exists(tableName)
Exists(tableName) == Read("exists", tableName, Undef, LAMBDA rs : Bool(Len(rs) > 0))

\* [...new Set(values)]: the values in the order of their first occurrence.
RECURSIVE Uniq(_, _)
Uniq(vs, seen) ==
    IF vs = <<>> THEN <<>>
    ELSE IF Head(vs) \in seen THEN Uniq(Tail(vs), seen)
         ELSE <<Head(vs)>> \o Uniq(Tail(vs), seen \cup {Head(vs)})

Column(rs, column) == [i \in 1..Len(rs) |-> rs[i][column]]

\* distinct(tableName, column)
Distinct(tableName, column) ==
    Read("distinct", tableName, Str(<<column>>), LAMBDA rs : Uniq(Column(rs, column), {}))

\* sum + (row[column] || 0): a number, or a string once a string is added.
Plus(acc, v) ==
    LET x == OrElse(v, Num(0))
    IN  IF acc.k = "string" \/ x.k = "string" THEN Str(ToStr(acc) \o ToStr(x))
        ELSE Num(ToNumber(acc).n + ToNumber(x).n)

RECURSIVE Reduce(_, _)
Reduce(vs, acc) == IF vs = <<>> THEN acc ELSE Reduce(Tail(vs), Plus(acc, Head(vs)))

RECURSIVE Gcd(_, _)
Gcd(a, b) == IF b = 0 THEN a ELSE Gcd(b, a % b)

Abs(i) == IF i < 0 THEN -i ELSE i

\* a / b for b > 0: the number, as a reduced fraction when it is no integer.
Divide(a, b) ==
    IF a.k # "number" THEN NaN
    ELSE IF a.n % b = 0 THEN Num(a.n \div b)
    ELSE [k |-> "fraction", n |-> a.n \div Gcd(Abs(a.n), b), s |-> <<>>,
          d |-> b \div Gcd(Abs(a.n), b)]

\* sum(tableName, column)
Sum(tableName, column) ==
    Read("sum", tableName, Str(<<column>>),
         LAMBDA rs : Reduce(Column(rs, column), Num(0)))

\* avg(tableName, column)
Avg(tableName, column) ==
    Read("avg", tableName, Str(<<column>>),
         LAMBDA rs : IF Len(rs) = 0 THEN Num(0)
                     ELSE Divide(ToNumber(Reduce(Column(rs, column), Num(0))), Len(rs)))

\* Math.min(...vs) and Math.max(...vs) for a non-empty vs.
MathMin(vs) ==
    IF \E i \in 1..Len(vs) : ToNumber(vs[i]) = NaN THEN NaN
    ELSE Num(-Max({-ToNumber(vs[i]).n : i \in 1..Len(vs)}))

MathMax(vs) ==
    IF \E i \in 1..Len(vs) : ToNumber(vs[i]) = NaN THEN NaN
    ELSE Num(Max({ToNumber(vs[i]).n : i \in 1..Len(vs)}))

\* min(tableName, column)
Min(tableName, column) ==
    Read("min", tableName, Str(<<column>>),
         LAMBDA rs : IF Len(rs) = 0 THEN Null ELSE MathMin(Column(rs, column)))

\* max(tableName, column); the model's Max is the greatest element of a set.
MaxOf(tableName, column) ==
    Read("max", tableName, Str(<<column>>),
         LAMBDA rs : IF Len(rs) = 0 THEN Null ELSE MathMax(Column(rs, column)))

\* groupBy(tableName, column): the groups by property key String(row[column]).
GroupBy(tableName, column) ==
    Read("groupBy", tableName, Str(<<column>>),
         LAMBDA rs : [key \in {ToStr(rs[i][column]) : i \in 1..Len(rs)} |->
                        SelectSeq(rs, LAMBDA row : ToStr(row[column]) = key)])

\* JSON.stringify(data, null, 2): the text that encodes data.
Stringify(data) == [json |-> data]

\* toJSON(tableName)
ToJSON(tableName) == Read("toJSON", tableName, Undef, LAMBDA rs : Stringify(rs))

\* A page count that rounds down.
TotalPagesFloor(total, perPage) == total \div perPage

\* Math.ceil(total / perPage), for a positive perPage.
TotalPages(total, perPage) == (total + perPage - 1) \div perPage

\* paginate(tableName, page, perPage): count() applies and resets the pending
\* conditions, then limit(perPage, offset).get() runs on the reset state.
Paginate(tableName, page, perPage) ==
    /\ IF ~Has(tableName)
       THEN /\ last' = Call("paginate", tableName, "TableNotFound", Undef, Num(page))
            /\ UNCHANGED conditions
       ELSE \E counted \in GetResults(RowsOf(tableName), conditions, softDelete) :
            \E results \in GetResults(RowsOf(tableName),
                              [resetConditions EXCEPT !.limit = Num(perPage),
                                                      !.offset = (page - 1) * perPage],
                              softDelete) :
              LET total == Len(counted)
                  totalPages == TotalPages(total, perPage)
              IN  /\ last' = Call("paginate", tableName, "",
                                  [data |-> results, total |-> total,
                                   perPage |-> perPage, currentPage |-> page,
                                   totalPages |-> totalPages,
                                   hasNextPage |-> page < totalPages,
                                   hasPrevPage |-> page > 1],
                                  Num(page))
                  /\ conditions' = resetConditions
    /\ txn' = Note("paginate")
    /\ UNCHANGED <<store, meta, config, history, lastError, lastInsertId, snap>>

\* A find that returns the last element that satisfies the test.
FindLast(data2, key2, value) ==
    LET at == {j \in 1..Len(data2) : StrictEq(data2[j][key2], value)}
    IN  IF at = {} THEN 0 ELSE Max(at)

\* data2.find(row2 => row2[key2] === value): the position of the first such
\* row, 0 for undefined.
Find(data2, key2, value) ==
    LET at == {j \in 1..Len(data2) : StrictEq(data2[j][key2], value)}
    IN  IF at = {} THEN 0 ELSE CHOOSE j \in at : \A k \in at : j <= k

\* The properties of a joined object: `${table}_${key}` is the pair of table
\* and key; the keys of row1 are written first, those of matching after them.
JoinedFields(table1, row1, table2, matching) ==
    [p \in Names \X Fields |->
        IF p[1] = table2 /\ matching[p[2]] # Undef THEN matching[p[2]]
        ELSE IF p[1] = table1 THEN row1[p[2]]
        ELSE Undef]

NoFields == [p \in Names \X Fields |-> Undef]

NoRow == [f \in Fields |-> Undef]

\* One element of the array join returns: the joined object, or row1 itself.
JoinRow(table1, row1, table2, data2, key1, key2) ==
    LET m == Find(data2, key2, row1[key1])
    IN  IF m # 0
        THEN [merged |-> TRUE, row |-> NoRow,
              fields |-> JoinedFields(table1, row1, table2, data2[m])]
        ELSE [merged |-> FALSE, row |-> row1, fields |-> NoFields]

\* join(table1, table2, key1, key2)
Join(table1, table2, key1, key2) ==
    /\ IF ~Has(table1) \/ ~Has(table2)
       THEN last' = Call("join", table1, "TableNotFound", Undef, Undef)
       ELSE last' = Call("join", table1, "",
                         [i \in 1..Len(RowsOf(table1)) |->
                            JoinRow(table1, RowsOf(table1)[i], table2,
                                    RowsOf(table2), key1, key2)],
                         [table2 |-> table2, key1 |-> key1, key2 |-> key2])
    /\ txn' = Note("join")
    /\ UNCHANGED <<store, meta, config, history, conditions, lastError,
                   lastInsertId, snap>>

\* ---------------------------------------------------------------- mutations

\* Variants of _getNextId: one more than the number of rows; the greatest id
\* floored at 0.
getNextIdByCount(rows) == Len(rows) + 1

getNextIdFromZero(rows) ==
    Max({OrElse(ParseInt(rows[i].id), Num(0)).n : i \in 1..Len(rows)} \cup {0}) + 1

\* _getNextId(tableName), for the rows of the table.
getNextId(rows) ==
    IF Len(rows) = 0 THEN 1
    ELSE Max({OrElse(ParseInt(rows[i].id), Num(0)).n : i \in 1..Len(rows)}) + 1

\* The row insert() builds from data: the id replaced when it is the
\* sentinel, the timestamps stamped when the feature is on.
NewData(data, rows, now) ==
    LET withId == IF StrictEq(data.id, AUTO_INCREMENT)
                  THEN [data EXCEPT !.id = Num(getNextId(rows))]
                  ELSE data
    IN  IF timestamps
        THEN [withId EXCEPT !.created_at = IsoString(now),
                            !.updated_at = IsoString(now)]
        ELSE withId

\* data.id raises a TypeError when data is null or undefined.
NoObject(data) == data = Null \/ data = Undef

\* insert(tableName, data), the clock reading now; the row is pushed onto the
\* table's array in place.
Insert(tableName, data, now) ==
    /\ IF ~Has(tableName)
       THEN /\ last' = Call("insert", tableName, "TableNotFound", Undef, data)
            /\ txn' = Note("insertFailed")
            /\ UNCHANGED <<heap, lastInsertId, conditions, assigned>>
       ELSE IF NoObject(data)
       THEN /\ last' = Call("insert", tableName, "TypeError", Undef, data)
            /\ txn' = Note("insertFailed")
            /\ UNCHANGED <<heap, lastInsertId, conditions, assigned>>
       ELSE LET newData == NewData(data, RowsOf(tableName), now)
                fired == trigger(triggers[tableName], "insert", Null, newData,
                                 conditions)
            IN  /\ Len(RowsOf(tableName)) < MaxRows
                /\ lastInsertId' = newData.id
                /\ heap' = IF fired.commit
                           THEN [heap EXCEPT ![tables[tableName]] = Append(@, newData)]
                           ELSE heap
                /\ conditions' = fired.cond
                /\ last' = [Call("insert", tableName, "", newData, data)
                              EXCEPT !.fired = fired.log]
                /\ txn' = Note("insert")
                /\ assigned' =
                     IF StrictEq(data.id, AUTO_INCREMENT)
                     THEN [assigned EXCEPT ![tableName] =
                             IF @ # <<>> /\ @[1] > newData.id.n THEN @
                             ELSE <<newData.id.n>>]
                     ELSE assigned
    /\ UNCHANGED <<tables, relationships, meta, config, lastError, snap>>

\* One insert of the loop of bulkInsert on a table that exists: st holds
\* the table's rows, this._lastInsertId, the condition state, the trigger
\* invocations and the greatest id given so far, and err what was raised.
InsertNext(st, data, ts, now) ==
    IF NoObject(data) THEN [st EXCEPT !.err = "TypeError"]
    ELSE LET newData == NewData(data, st.rows, now)
             fired == trigger(ts, "insert", Null, newData, st.cond)
         IN  [rows |-> IF fired.commit THEN Append(st.rows, newData) ELSE st.rows,
              lastInsertId |-> newData.id,
              cond |-> fired.cond,
              log |-> st.log \o fired.log,
              assigned |-> IF StrictEq(data.id, AUTO_INCREMENT)
                           THEN IF st.assigned # <<>> /\ st.assigned[1] > newData.id.n
                                THEN st.assigned
                                ELSE <<newData.id.n>>
                           ELSE st.assigned,
              err |-> ""]

\* A loop that inserts either every row or none.
RECURSIVE InsertEachOrNone(_, _, _, _)
InsertEachOrNone(st, dataArray, ts, now) ==
    IF \E i \in 1..Len(dataArray) : NoObject(dataArray[i])
    THEN [st EXCEPT !.err = "TypeError"]
    ELSE IF dataArray = <<>> THEN st
    ELSE InsertEachOrNone(InsertNext(st, Head(dataArray), ts, now),
                          Tail(dataArray), ts, now)

\* dataArray.forEach(data => this.insert(tableName, data)): the loop ends
\* with the first insert that raises.
RECURSIVE InsertEach(_, _, _, _)
InsertEach(st, dataArray, ts, now) ==
    IF dataArray = <<>> \/ st.err # "" THEN st
    ELSE InsertEach(InsertNext(st, Head(dataArray), ts, now),
                    Tail(dataArray), ts, now)

\* bulkInsert(tableName, dataArray), the clock reading now.  No insert is
\* called for an empty array, so nothing is raised then, whatever the table.
BulkInsert(tableName, dataArray, now) ==
    /\ IF dataArray = <<>>
       THEN /\ last' = Call("bulkInsert", tableName, "", Undef, dataArray)
            /\ txn' = Note("bulkInsert")
            /\ UNCHANGED <<heap, lastInsertId, conditions, assigned>>
       ELSE IF ~Has(tableName)
       THEN /\ last' = Call("bulkInsert", tableName, "TableNotFound", Undef, dataArray)
            /\ txn' = Note("insertFailed")
            /\ UNCHANGED <<heap, lastInsertId, conditions, assigned>>
       ELSE LET st == InsertEach([rows |-> RowsOf(tableName),
                                  lastInsertId |-> lastInsertId,
                                  cond |-> conditions,
                                  log |-> <<>>,
                                  assigned |-> assigned[tableName],
                                  err |-> ""],
                                 dataArray, triggers[tableName], now)
            IN  /\ Len(st.rows) <= MaxRows
                /\ heap' = [heap EXCEPT ![tables[tableName]] = st.rows]
                /\ lastInsertId' = st.lastInsertId
                /\ conditions' = st.cond
                /\ assigned' = [assigned EXCEPT ![tableName] = st.assigned]
                /\ last' = [Call("bulkInsert", tableName, st.err, Undef, dataArray)
                              EXCEPT !.fired = st.log]
                /\ txn' = IF NoObject(dataArray[1]) THEN Note("insertFailed")
                          ELSE Note("insert")
    /\ UNCHANGED <<tables, relationships, meta, config, lastError, snap>>

\* What getLastInsertId() returns: null while this._lastInsertId is falsy.
LastInsertIdOrNull == IF ~Truthy(lastInsertId) THEN Null ELSE lastInsertId

\* getLastInsertId()
GetLastInsertId ==
    /\ last' = Call("getLastInsertId", "", "", LastInsertIdOrNull, Undef)
    /\ txn' = Note("getLastInsertId")
    /\ UNCHANGED <<store, meta, config, history, conditions, lastError,
                   lastInsertId, snap>>

\* The row test of update() and delete(): every condition by strict equality.
EveryEqual(row, cs) == \A i \in 1..Len(cs) : StrictEq(row[cs[i].field], cs[i].value)

\* A variant of table.map(...) of update(): a veto on one matching row keeps
\* every row of the call as it was.
UpdateRowsAllOrNothing(rows, updateData, ts, cond) ==
    LET match(i) == EveryEqual(rows[i], cond.whereConditions)
        fired(i) == trigger(ts, "update", rows[i], Spread(rows[i], updateData), cond)
        vetoed == \E i \in 1..Len(rows) : match(i) /\ ~fired(i).commit
        RECURSIVE logs(_)
        logs(i) == IF i > Len(rows) THEN <<>>
                   ELSE (IF match(i) THEN fired(i).log ELSE <<>>) \o logs(i + 1)
    IN  [rows |-> [i \in 1..Len(rows) |->
                     IF match(i) /\ ~vetoed THEN Spread(rows[i], updateData)
                     ELSE rows[i]],
         cond |-> cond,
         log |-> logs(1)]

\* table.map(...) of update(): the rows it returns and the condition state the
\* triggers leave; the conditions are read anew for every row.
RECURSIVE UpdateRows(_, _, _, _)
UpdateRows(rows, updateData, ts, cond) ==
    IF rows = <<>> THEN [rows |-> <<>>, cond |-> cond, log |-> <<>>]
    ELSE LET row == Head(rows)
             shouldUpdate == EveryEqual(row, cond.whereConditions)
             newData == IF shouldUpdate THEN Spread(row, updateData) ELSE row
             fired == IF shouldUpdate
                      THEN trigger(ts, "update", row, newData, cond)
                      ELSE [commit |-> FALSE, cond |-> cond, log |-> <<>>]
             rest == UpdateRows(Tail(rows), updateData, ts, fired.cond)
         IN  [rows |-> <<IF fired.commit THEN newData ELSE row>> \o rest.rows,
              cond |-> rest.cond,
              log |-> fired.log \o rest.log]

\* this._tables.set(tableName, rows), rows a new array; tx is the transaction
\* stack after the call.
SetRows(tableName, rows, tx) ==
    LET r == Fresh(InUse)
    IN  Settle([tables EXCEPT ![tableName] = r], relationships,
               [heap EXCEPT ![r] = rows], snap, tx)

\* update(tableName, data), the clock reading now.
Update(tableName, data, now) ==
    /\ IF ~Has(tableName)
       THEN /\ last' = Call("update", tableName, "TableNotFound", Undef, data)
            /\ txn' = Note("update")
            /\ UNCHANGED <<store, snap, conditions>>
       ELSE LET updateData == IF timestamps
                              THEN [data EXCEPT !.updated_at = IsoString(now)]
                              ELSE data
                done == UpdateRows(RowsOf(tableName), updateData,
                                   triggers[tableName], conditions)
            IN  /\ SetRows(tableName, done.rows, Note("update"))
                /\ conditions' = resetConditions
                /\ last' = [Call("update", tableName, "", Undef, data)
                              EXCEPT !.fired = done.log]
    /\ UNCHANGED <<meta, config, history, lastError, lastInsertId>>

\* table.map(...) and table.filter(...) of delete(): per row whether it is to be
\* deleted, and the condition state the triggers leave.
RECURSIVE DeleteMarks(_, _, _)
DeleteMarks(rows, ts, cond) ==
    IF rows = <<>> THEN [marks |-> <<>>, cond |-> cond, log |-> <<>>]
    ELSE LET row == Head(rows)
             fired == IF EveryEqual(row, cond.whereConditions)
                      THEN trigger(ts, "delete", row, Null, cond)
                      ELSE [commit |-> FALSE, cond |-> cond, log |-> <<>>]
             rest == DeleteMarks(Tail(rows), ts, fired.cond)
         IN  [marks |-> <<fired.commit>> \o rest.marks, cond |-> rest.cond,
              log |-> fired.log \o rest.log]

\* The rows delete() stores: marked rows stamped (soft) or left out (hard).
RECURSIVE DeleteRows(_, _, _, _)
DeleteRows(rows, marks, soft, now) ==
    IF rows = <<>> THEN <<>>
    ELSE (IF ~Head(marks) THEN <<Head(rows)>>
          ELSE IF soft THEN <<[Head(rows) EXCEPT !.deleted_at = IsoString(now)]>>
          ELSE <<>>)
         \o DeleteRows(Tail(rows), Tail(marks), soft, now)

\* delete(tableName), the clock reading now.
Delete(tableName, now) ==
    /\ IF ~Has(tableName)
       THEN /\ last' = Call("delete", tableName, "TableNotFound", Undef, Undef)
            /\ txn' = Note("delete")
            /\ UNCHANGED <<store, snap, conditions>>
       ELSE LET done == DeleteMarks(RowsOf(tableName), triggers[tableName],
                                    conditions)
            IN  /\ SetRows(tableName,
                           DeleteRows(RowsOf(tableName), done.marks, softDelete, now),
                           Note("delete"))
                /\ conditions' = resetConditions
                /\ last' = [Call("delete", tableName, "", Undef, Undef)
                              EXCEPT !.fired = done.log]
    /\ UNCHANGED <<meta, config, history, lastError, lastInsertId>>

\* A truncate that removes the rows get would see and keeps the soft-deleted.
TruncateSeen(tableName) ==
    /\ IF ~Has(tableName)
       THEN /\ last' = Call("truncate", tableName, "TableNotFound", Undef, Undef)
            /\ txn' = Note("truncate")
            /\ UNCHANGED <<store, snap>>
       ELSE /\ SetRows(tableName,
                       SelectSeq(RowsOf(tableName), LAMBDA row : Truthy(row.deleted_at)),
                       Note("truncate"))
            /\ last' = Call("truncate", tableName, "", Undef, Undef)
    /\ UNCHANGED <<meta, config, history, conditions, lastError, lastInsertId>>

\* truncate(tableName)
Truncate(tableName) ==
    /\ IF ~Has(tableName)
       THEN /\ last' = Call("truncate", tableName, "TableNotFound", Undef, Undef)
            /\ txn' = Note("truncate")
            /\ UNCHANGED <<store, snap>>
       ELSE /\ SetRows(tableName, <<>>, Note("truncate"))
            /\ last' = Call("truncate", tableName, "", Undef, Undef)
    /\ UNCHANGED <<meta, config, history, conditions, lastError, lastInsertId>>

\* ---------------------------------------------------------- table lifecycle

\* The characters of a table name, for the keys of this._indexes.
NameChars(name) ==
    CASE name = "users" -> <<"u", "s", "e", "r", "s">>
      [] name = "posts" -> <<"p", "o", "s", "t", "s">>
      [] OTHER -> <<"u", "s", "e", "r", "s", ":", "o", "l", "d">>

\* key.startsWith(prefix)
StartsWith(key, prefix) ==
    Len(prefix) <= Len(key) /\ SubSeq(key, 1, Len(prefix)) = prefix

\* createTable(tableName, schema = null); NoSchema is the null schema.
CreateTable(tableName, schema) ==
    /\ IF Has(tableName)
       THEN /\ last' = Call("createTable", tableName, "TableAlreadyExists", Undef, Undef)
            /\ txn' = Note("createTable")
            /\ UNCHANGED <<store, snap, schemas>>
       ELSE /\ SetRows(tableName, <<>>, Note("createTable"))
            /\ schemas' = IF schema # NoSchema
                          THEN [made |-> TRUE,
                                of |-> [schemas.of EXCEPT ![tableName] = schema]]
                          ELSE schemas
            /\ last' = Call("createTable", tableName, "", Undef, Undef)
    /\ UNCHANGED <<triggers, indexes, config, history, conditions, lastError, lastInsertId>>

\* A dropTable that removes the rows and relationships and keeps the
\* table's schema, triggers and indexes.
DropTableOnly(tableName) ==
    /\ IF ~Has(tableName)
       THEN /\ last' = Call("dropTable", tableName, "TableNotFound", Undef, Undef)
            /\ txn' = Note("dropTable")
            /\ UNCHANGED <<store, snap>>
       ELSE /\ Settle([tables EXCEPT ![tableName] = 0],
                      [relationships EXCEPT ![tableName] = 0],
                      heap, snap, Note("dropTable"))
            /\ last' = Call("dropTable", tableName, "", Undef, Undef)
    /\ UNCHANGED <<meta, config, history, conditions, lastError, lastInsertId>>

\* dropTable(tableName)
DropTable(tableName) ==
    /\ IF ~Has(tableName)
       THEN /\ last' = Call("dropTable", tableName, "TableNotFound", Undef, Undef)
            /\ txn' = Note("dropTable")
            /\ UNCHANGED <<store, snap, meta>>
       ELSE /\ Settle([tables EXCEPT ![tableName] = 0],
                      [relationships EXCEPT ![tableName] = 0],
                      heap, snap, Note("dropTable"))
            /\ triggers' = [triggers EXCEPT ![tableName] = <<>>]
            /\ schemas' = [schemas EXCEPT !.of[tableName] = NoSchema]
            /\ indexes' =
                 [indexes EXCEPT !.entries =
                    {e \in @ : ~StartsWith(e.key, NameChars(tableName) \o <<":">>)}]
            /\ last' = Call("dropTable", tableName, "", Undef, Undef)
    /\ UNCHANGED <<config, history, conditions, lastError, lastInsertId>>

\* The characters of a column name.
FieldChars(f) ==
    CASE f = "id" -> <<"i", "d">>
      [] f = "age" -> <<"a", "g", "e">>
      [] f = "name" -> <<"n", "a", "m", "e">>
      [] f = "created_at" -> <<"c", "r", "e", "a", "t", "e", "d", "_", "a", "t">>
      [] f = "updated_at" -> <<"u", "p", "d", "a", "t", "e", "d", "_", "a", "t">>
      [] OTHER -> <<"d", "e", "l", "e", "t", "e", "d", "_", "a", "t">>

\* array.join(sep) of an array of strings
RECURSIVE Joined(_, _)
Joined(items, sep) ==
    IF items = <<>> THEN <<>>
    ELSE IF Len(items) = 1 THEN items[1]
    ELSE items[1] \o sep \o Joined(Tail(items), sep)

\* The text join() gives an element: nothing for undefined and null.
JoinText(v) == IF v = Undef \/ v = Null THEN <<>> ELSE ToStr(v)

\* columns.map(col => row[col]).join('|')
IndexKey(row, columns) ==
    Joined([i \in 1..Len(columns) |-> JoinText(row[columns[i]])], <<"|">>)

\* The index Map built by the loop of createIndex: the groups in the order
\* their keys first occur, each with its rows in table order.
\* A grouping that keeps, in each group, only the row that came last.
RECURSIVE GroupedLast(_, _, _)
GroupedLast(rows, columns, index) ==
    IF rows = <<>> THEN index
    ELSE LET key == IndexKey(Head(rows), columns)
             at == {i \in 1..Len(index) : index[i].key = key}
         IN  GroupedLast(Tail(rows), columns,
                         IF at = {}
                         THEN Append(index, [key |-> key, rows |-> <<Head(rows)>>])
                         ELSE [index EXCEPT ![CHOOSE i \in at : TRUE].rows =
                                 <<Head(rows)>>])

RECURSIVE Grouped(_, _, _)
Grouped(rows, columns, index) ==
    IF rows = <<>> THEN index
    ELSE LET key == IndexKey(Head(rows), columns)
             at == {i \in 1..Len(index) : index[i].key = key}
         IN  Grouped(Tail(rows), columns,
                     IF at = {}
                     THEN Append(index, [key |-> key, rows |-> <<Head(rows)>>])
                     ELSE [index EXCEPT ![CHOOSE i \in at : TRUE].rows =
                             Append(@, Head(rows))])

\* `${tableName}:${columns.join('+')}`
IndexName(tableName, columns) ==
    NameChars(tableName) \o <<":">>
    \o Joined([i \in 1..Len(columns) |-> FieldChars(columns[i])], <<"+">>)

\* createIndex(tableName, columns); the entry notes the table it was built
\* for, which the Map does not hold.
CreateIndex(tableName, columns) ==
    /\ IF ~Has(tableName)
       THEN /\ last' = Call("createIndex", tableName, "TableNotFound", Undef, columns)
            /\ UNCHANGED indexes
       ELSE /\ indexes' =
                 [made |-> TRUE,
                  entries |->
                    {e \in indexes.entries : e.key # IndexName(tableName, columns)}
                    \cup {[key |-> IndexName(tableName, columns),
                           of |-> tableName,
                           index |-> Grouped(RowsOf(tableName), columns, <<>>)]}]
            /\ last' = Call("createIndex", tableName, "", Undef, columns)
    /\ txn' = Note("createIndex")
    /\ UNCHANGED <<store, snap, triggers, schemas, config, history, conditions,
                   lastError, lastInsertId>>

\* The data argument of setTable: an array of rows, or something else.
ArrayOf(rows) == [isArray |-> TRUE, rows |-> rows]

NotArray == [isArray |-> FALSE, rows |-> <<>>]

\* A stamping that overwrites the timestamps a row brings.
StampedAnew(row, now) ==
    [row EXCEPT !.created_at = IsoString(now), !.updated_at = IsoString(now)]

\* row.created_at || new Date().toISOString(), and the same for updated_at.
Stamped(row, now) ==
    [row EXCEPT !.created_at = OrElse(@, IsoString(now)),
                !.updated_at = OrElse(@, IsoString(now))]

\* setTable(tableName, data, schema = null), the clock reading now: the table
\* is created or replaced; the schema is used for validation and not stored.
SetTable(tableName, data, schema, now) ==
    /\ IF ~data.isArray
       THEN /\ last' = Call("setTable", tableName, "DataNotArray", Undef, data)
            /\ txn' = Note("setTable")
            /\ UNCHANGED <<store, snap>>
       ELSE IF schema # NoSchema /\ validateSchema(data.rows, schema) # ""
       THEN /\ last' = Call("setTable", tableName, "SchemaValidationError",
                            Undef, data)
            /\ txn' = Note("setTable")
            /\ UNCHANGED <<store, snap>>
       ELSE /\ SetRows(tableName,
                       IF timestamps
                       THEN [i \in 1..Len(data.rows) |-> Stamped(data.rows[i], now)]
                       ELSE data.rows,
                       Note("setTable"))
            /\ last' = Call("setTable", tableName, "", Undef, data)
    /\ UNCHANGED <<meta, config, history, conditions, lastError, lastInsertId>>

\* A JSON text: one JSON.parse rejects, or the text of a value.
BadJson == [parses |-> FALSE, value |-> [isArray |-> FALSE, rows |-> <<>>]]

JsonOf(data) == [parses |-> TRUE, value |-> data]

\* The error the try block of fromJSON raises, null when it returns: the
\* SyntaxError of JSON.parse, or the Error of setTable on a value that is no
\* array.
FromJSONError(jsonData) ==
    IF ~jsonData.parses THEN Str(<<"SyntaxError">>)
    ELSE IF ~jsonData.value.isArray THEN Str(<<"Error">>)
    ELSE Null

\* A _lastError that a call without failure clears.
LastErrorCleared(caught) == caught

\* this._lastError after a try block that caught the error caught, or
\* nothing (null).
LastErrorAfter(caught) == IF caught = Null THEN lastError ELSE caught

\* fromJSON(tableName, jsonData), the clock reading now: setTable without a
\* schema on the parsed value.
FromJSON(tableName, jsonData, now) ==
    LET caught == FromJSONError(jsonData)
        rows == jsonData.value.rows
    IN  /\ IF caught # Null
           THEN /\ last' = Call("fromJSON", tableName, "InvalidJSON", Undef, jsonData)
                /\ txn' = Note("fromJSON")
                /\ UNCHANGED <<store, snap>>
           ELSE /\ SetRows(tableName,
                           IF timestamps
                           THEN [i \in 1..Len(rows) |-> Stamped(rows[i], now)]
                           ELSE rows,
                           Note("fromJSON"))
                /\ last' = Call("fromJSON", tableName, "", Undef, jsonData)
        /\ lastError' = LastErrorAfter(caught)
        /\ UNCHANGED <<meta, config, history, conditions, lastInsertId>>

\* getLastError()
GetLastError ==
    /\ last' = Call("getLastError", "", "", lastError, Undef)
    /\ txn' = Note("getLastError")
    /\ UNCHANGED <<store, meta, config, history, conditions, lastError,
                   lastInsertId, snap>>

\* addColumn(tableName, columnName, defaultValue = null)
AddColumn(tableName, columnName, defaultValue) ==
    /\ IF ~Has(tableName)
       THEN /\ last' = Call("addColumn", tableName, "TableNotFound", Undef, Undef)
            /\ txn' = Note("addColumn")
            /\ UNCHANGED <<store, snap>>
       ELSE /\ SetRows(tableName,
                       [i \in 1..Len(RowsOf(tableName)) |->
                          [RowsOf(tableName)[i] EXCEPT ![columnName] = defaultValue]],
                       Note("addColumn"))
            /\ last' = Call("addColumn", tableName, "", Undef, Undef)
    /\ UNCHANGED <<meta, config, history, conditions, lastError, lastInsertId>>

\* dropColumn(tableName, columnName)
DropColumn(tableName, columnName) ==
    /\ IF ~Has(tableName)
       THEN /\ last' = Call("dropColumn", tableName, "TableNotFound", Undef, Undef)
            /\ txn' = Note("dropColumn")
            /\ UNCHANGED <<store, snap>>
       ELSE /\ SetRows(tableName,
                       [i \in 1..Len(RowsOf(tableName)) |->
                          [RowsOf(tableName)[i] EXCEPT ![columnName] = Undef]],
                       Note("dropColumn"))
            /\ last' = Call("dropColumn", tableName, "", Undef, Undef)
    /\ UNCHANGED <<meta, config, history, conditions, lastError, lastInsertId>>

\* createTrigger(tableName, triggerName, trigger), trigger the callback fn.
CreateTrigger(tableName, triggerName, fn) ==
    /\ IF ~Has(tableName)
       THEN /\ last' = Call("createTrigger", tableName, "TableNotFound", Undef,
                            Str(<<triggerName>>))
            /\ UNCHANGED triggers
       ELSE IF \E i \in 1..Len(triggers[tableName]) :
                  triggers[tableName][i].name = triggerName
       THEN /\ last' = Call("createTrigger", tableName, "TriggerAlreadyExists",
                            Undef, Str(<<triggerName>>))
            /\ UNCHANGED triggers
       ELSE /\ last' = Call("createTrigger", tableName, "", Undef,
                            Str(<<triggerName>>))
            /\ triggers' = [triggers EXCEPT ![tableName] =
                              Append(@, [name |-> triggerName, fn |-> fn])]
    /\ txn' = Note("createTrigger")
    /\ UNCHANGED <<store, schemas, indexes, config, history, conditions,
                   lastError, lastInsertId, snap>>

\* A drop that removes the named trigger and keeps the others.
DroppedByName(ts, triggerName) ==
    SelectSeq(ts, LAMBDA t : t.name # triggerName)

\* The triggers left of the triggers ts of a table when dropTrigger has found
\* triggerName among them: this._triggers.delete(tableName).
Dropped(ts, triggerName) == <<>>

\* dropTrigger(tableName, triggerName): the whole trigger map of the table is
\* deleted.
DropTrigger(tableName, triggerName) ==
    /\ IF \E i \in 1..Len(triggers[tableName]) :
             triggers[tableName][i].name = triggerName
       THEN /\ last' = Call("dropTrigger", tableName, "", Undef, Str(<<triggerName>>))
            /\ triggers' = [triggers EXCEPT ![tableName] = Dropped(@, triggerName)]
       ELSE /\ last' = Call("dropTrigger", tableName, "TriggerNotFound", Undef,
                            Str(<<triggerName>>))
            /\ UNCHANGED triggers
    /\ txn' = Note("dropTrigger")
    /\ UNCHANGED <<store, schemas, indexes, config, history, conditions,
                   lastError, lastInsertId, snap>>

\* getSchema(tableName): undefined for a table without a schema, null while
\* no schema was ever stored.
GetSchema(tableName) ==
    /\ last' = Call("getSchema", tableName, "",
                    IF ~schemas.made THEN Null
                    ELSE IF schemas.of[tableName] = NoSchema THEN Undef
                    ELSE schemas.of[tableName],
                    Undef)
    /\ txn' = Note("getSchema")
    /\ UNCHANGED <<store, meta, config, history, conditions, lastError,
                   lastInsertId, snap>>

\* updateSchema(tableName, schema): the schema is stored, then the rows of the
\* table are validated against it.
UpdateSchema(tableName, schema) ==
    /\ IF ~Has(tableName)
       THEN /\ last' = Call("updateSchema", tableName, "TableNotFound", Undef, schema)
            /\ UNCHANGED schemas
       ELSE /\ schemas' = [made |-> TRUE,
                           of |-> [schemas.of EXCEPT ![tableName] = schema]]
            /\ last' = Call("updateSchema", tableName,
                            IF validateSchema(RowsOf(tableName), schema) # ""
                            THEN "SchemaValidationError" ELSE "",
                            Undef, schema)
    /\ txn' = Note("updateSchema")
    /\ UNCHANGED <<store, triggers, indexes, config, history, conditions,
                   lastError, lastInsertId, snap>>

\* setRelation(tableName, relatedTable, type, foreignKey): the entry is pushed
\* onto the table's list in place; a table without a list gets a new one.
SetRelation(tableName, relatedTable, type, foreignKey) ==
    LET r == IF relationships[tableName] = 0 THEN Fresh(InUse)
             ELSE relationships[tableName]
    IN  /\ Len(heap[r]) < MaxRels
        /\ Settle(tables, [relationships EXCEPT ![tableName] = r],
                  [heap EXCEPT ![r] =
                     Append(@, [table |-> relatedTable, type |-> type,
                                foreignKey |-> foreignKey])],
                  snap, Note("setRelation"))
        /\ last' = Call("setRelation", tableName, "", Undef, Undef)
        /\ UNCHANGED <<meta, config, history, conditions, lastError, lastInsertId>>

\* ------------------------------------------------------- backup and restore

\* The object backup() returns: data and metadata.relationships name the
\* arrays of the store themselves, metadata.tables holds the row counts.
BackupObject ==
    [held |-> TRUE, shape |-> "ok", data |-> tables,
     counts |-> [n \in Names |-> IF Has(n) THEN Len(RowsOf(n)) ELSE 0],
     relationships |-> relationships, view |-> View, relView |-> RelView]

\* A restore that keeps the tables it finds.
RestoredNothing(backup) ==
    [err |-> "", tables |-> tables, relationships |-> relationships]

\* The effect of the try block of restore(backup): this._tables is assigned
\* before backup.metadata is read.
Restored(backup) ==
    [err |-> IF backup.shape = "ok" THEN "" ELSE "InvalidBackup",
     tables |-> IF backup.shape = "noData" THEN tables ELSE backup.data,
     relationships |-> IF backup.shape = "ok" THEN backup.relationships
                       ELSE relationships]

\* backup(), the caller keeping the object returned.
Backup ==
    /\ Settle(tables, relationships, heap, BackupObject, txn)
    /\ last' = Call("backup", "", "", Undef, Undef)
    /\ UNCHANGED <<meta, config, history, conditions, lastError, lastInsertId>>

\* restore(backup)
Restore(backup) ==
    LET done == Restored(backup)
    IN  /\ Settle(done.tables, done.relationships, heap, snap, Note("restore"))
        /\ lastError' = IF done.err = "" THEN lastError ELSE Str(<<"TypeError">>)
        /\ last' = Call("restore", "", done.err, Undef, Undef)
        /\ UNCHANGED <<meta, config, history, conditions, lastInsertId>>

\* ------------------------------------------------------------- transactions

\* transaction(callback), up to the call of callback: the backup is taken.
\* The frame also notes the kinds of calls the callback makes.
TransactionBegin ==
    /\ Len(txn) < MaxDepth
    /\ Settle(tables, relationships, heap, snap,
              Append(txn, [backup |-> BackupObject, calls |-> {}]))
    /\ last' = Call("transactionBegin", "", "", Undef, Undef)
    /\ UNCHANGED <<meta, config, history, conditions, lastError, lastInsertId>>

\* The frames left when the innermost transaction() ends; the enclosing
\* callback has made a transaction call, and through it the calls of the
\* inner callback.
Popped ==
    LET outer == SubSeq(txn, 1, Len(txn) - 1)
    IN  IF outer = <<>> THEN outer
        ELSE [outer EXCEPT ![Len(outer)].calls =
                @ \cup {"other"} \cup txn[Len(txn)].calls]

\* A rollback that takes the backup of the outermost transaction in progress.
OutermostSnapshot == txn[1].backup

\* const backup of the transaction() call whose callback is running: each
\* call has its own.
Snapshot == txn[Len(txn)].backup

\* The record of a transaction() call that ended with err: the rows held at
\* entry, the calls of the callback and the rows the callback left.
TransactionCall(err) ==
    [Call("transaction", "", err, Undef, Undef) EXCEPT
       !.before = txn[Len(txn)].backup.view, !.calls = txn[Len(txn)].calls,
       !.left = View]

\* transaction(callback), the callback having returned.
TransactionCommit ==
    /\ txn # <<>>
    /\ Settle(tables, relationships, heap, snap, Popped)
    /\ last' = TransactionCall("")
    /\ UNCHANGED <<meta, config, history, conditions, lastError, lastInsertId>>

\* transaction(callback), the callback having raised: restore(backup), then
\* the failure is raised again.
TransactionRollback ==
    /\ txn # <<>>
    /\ LET done == Restored(Snapshot)
       IN  Settle(done.tables, done.relationships, heap, snap, Popped)
    /\ last' = TransactionCall("CallbackError")
    /\ UNCHANGED <<meta, config, history, conditions, lastError, lastInsertId>>

\* ------------------------------------------------------------ specifications

\* new VertexDB({timestamps: ts, softDelete: sd})
Constructed(ts, sd) ==
    /\ tables = NoRefs
    /\ relationships = NoRefs
    /\ heap = [r \in Refs |-> <<>>]
    /\ triggers = [n \in Names |-> <<>>]
    /\ schemas = [made |-> FALSE, of |-> [n \in Names |-> NoSchema]]
    /\ indexes = [made |-> FALSE, entries |-> {}]
    /\ conditions = NoConditions
    /\ timestamps = ts
    /\ softDelete = sd
    /\ lastError = Null
    /\ lastInsertId = Undef
    /\ snap = NoBackup
    /\ txn = <<>>
    /\ last = Call("new", "", "", Undef, Undef)
    /\ assigned = [n \in Names |-> <<>>]

\* Spec: tables and transactions that are not nested.
Init == Constructed(FALSE, FALSE)

Next ==
    \/ \E t \in Common : CreateTable(t, NoSchema)
    \/ \E t \in Common : Insert(t, Row(AUTO_INCREMENT, Num(1), Undef), 1)
    \/ \E t \in Common : Truncate(t)
    \/ txn = <<>> /\ TransactionBegin
    \/ TransactionCommit
    \/ TransactionRollback

Spec == Init /\ [][Next]_vars

\* SpecBackup: tables, relationships, backup() and restore().
NextBackup ==
    \/ \E t \in Common : CreateTable(t, NoSchema)
    \/ Insert("users", Row(AUTO_INCREMENT, Num(1), Undef), 1)
    \/ Update("users", Row(Undef, Num(2), Undef), 1)
    \/ Delete("users", 1)
    \/ Truncate("users")
    \/ SetRelation("posts", "users", "hasOne", "user_id")
    \/ Backup
    \/ snap.held /\ Restore(snap)

SpecBackup == Init /\ [][NextBackup]_vars

\* SpecSchema: tables created with a schema, and inserts of rows that satisfy
\* the schema or violate one of its rules.
UserSchema ==
    <<<<"age", [NoRules EXCEPT !.required = TRUE, !.type = "number",
                               !.min = 2, !.max = 3]>>,
      <<"name", [NoRules EXCEPT !.type = "string", !.length = 2,
                                !.pattern = "digits"]>>>>

SchemaRows ==
    {Row(AUTO_INCREMENT, age, Str(<<"1", "2">>)) :
        age \in {Num(2), Undef, Str(<<"x">>), Num(1), Num(4)}}
    \cup {Row(AUTO_INCREMENT, Num(2), name) : name \in {Str(<<"1">>), Str(<<"a", "b">>)}}

NextSchema ==
    \/ \E t \in Common : CreateTable(t, UserSchema)
    \/ \E t \in Common, row \in SchemaRows : Insert(t, row, 1)

SpecSchema == Init /\ [][NextSchema]_vars

\* SpecIds: AUTO_INCREMENT and caller-chosen ids, with deletes and truncates.
\* "users" also gets rows whose id the caller chose, or that have none.
ManualIds == {Num(-2), Str(<<"3">>), Undef}

NextIds ==
    \/ \E t \in Common : CreateTable(t, NoSchema)
    \/ \E t \in Common : Insert(t, Row(AUTO_INCREMENT, Undef, Undef), 1)
    \/ \E id \in ManualIds : Insert("users", Row(id, Undef, Undef), 1)
    \/ conditions = NoConditions /\ Where("id", Num(1), "AND")
    \/ Delete("users", 1)
    \/ Truncate("users")

SpecIds == Init /\ [][NextIds]_vars

\* SpecQuery: condition chains and the terminal calls that consume them, on
\* "users"; "posts" is never created, so calls on it find no table.
QueryRows ==
    {Row(Num(1), Num(1), Str(<<"a">>)),
     Row(Num(1), Num(2), Str(<<"a">>))}

\* The number of builder calls whose effect is pending.
Pending ==
    Len(conditions.whereConditions)
      + (IF conditions.searchConditions # <<>> THEN 1 ELSE 0)
      + (IF conditions.orderBy # <<>> THEN 1 ELSE 0)
      + (IF conditions.limit # Null THEN 1 ELSE 0)

Build ==
    \/ Where("age", Num(1), "AND")
    \/ OrWhere("name", Str(<<"a">>))
    \/ WhereOperator("age", ">", Num(1))
    \/ WhereIn("age", <<Num(2)>>)
    \/ WhereLike("name", Str(<<"%", "a", "%">>))
    \/ Search(<<<<"name", Str(<<"A">>)>>>>)
    \/ OrderBy("age", "DESC")
    \/ Limit(1, 0)

NextQuery ==
    \/ CreateTable("users", NoSchema)
    \/ \E row \in QueryRows : Insert("users", row, 1)
    \/ Pending < MaxConds /\ Build
    \/ \E t \in Common : Get(t)
    \/ \E t \in Common : Update(t, Row(Undef, Num(2), Undef), 1)
    \/ \E t \in Common : Delete(t, 1)
    \/ GetOne("users")
    \/ Count("users")
    \/ Exists("users")
    \/ Distinct("users", "age")
    \/ Sum("users", "age")
    \/ Avg("users", "age")
    \/ Min("users", "age")
    \/ MaxOf("users", "age")
    \/ GroupBy("users", "age")
    \/ ToJSON("users")
    \/ \E page \in 1..2 : Paginate("users", page, 1)

SpecQuery == Init /\ [][NextQuery]_vars

\* SpecSoft: a store constructed with softDelete, its deletes, reads and
\* truncates.
InitSoft == Constructed(FALSE, TRUE)

NextSoft ==
    \/ CreateTable("users", NoSchema)
    \/ \E age \in 1..2 : Insert("users", Row(Num(age), Num(age), Undef), 1)
    \/ Pending < MaxConds /\ \E age \in 1..2 : Where("age", Num(age), "AND")
    \/ Delete("users", 1)
    \/ Truncate("users")
    \/ \E t \in Common : Get(t)
    \/ GetOne("users")
    \/ Count("users")
    \/ Exists("users")
    \/ Distinct("users", "age")
    \/ Sum("users", "age")
    \/ Avg("users", "age")
    \/ Min("users", "age")
    \/ MaxOf("users", "age")
    \/ GroupBy("users", "age")

SpecSoft == InitSoft /\ [][NextSoft]_vars

\* SpecReschema: tables with and without a schema, rows that satisfy or
\* violate the schemas, and schema updates.
AgeSchema == <<<<"age", [NoRules EXCEPT !.type = "number", !.max = 1]>>>>

ReschemaRows ==
    {Row(AUTO_INCREMENT, Num(2), Str(<<"1", "2">>)),
     Row(AUTO_INCREMENT, Num(1), Str(<<"1", "2">>)),
     Row(AUTO_INCREMENT, Num(2), Str(<<"1">>))}

NextReschema ==
    \/ \E schema \in {NoSchema, UserSchema} : CreateTable("users", schema)
    \/ \E row \in ReschemaRows : Insert("users", row, 1)
    \/ \E t \in Common, schema \in {UserSchema, AgeSchema} : UpdateSchema(t, schema)
    \/ \E t \in Common : GetSchema(t)

SpecReschema == Init /\ [][NextReschema]_vars

\* SpecTriggers: triggers on "users" and the mutations that fire them, with
\* and without softDelete; the callbacks do not call the store. The caller
\* inserts rows with ids of its own, each greater than the ids stored, the
\* row with id 1 having age 1 and the others age 2.
TriggerNames == {"a", "b"}

InitTriggers == \E sd \in BOOLEAN : Constructed(FALSE, sd)

NextTriggers ==
    \/ CreateTable("users", NoSchema)
    \/ \E id \in 1..MaxRows :
          /\ Has("users") => \A i \in 1..Len(RowsOf("users")) :
                                RowsOf("users")[i].id.n < id
          /\ Insert("users", Row(Num(id), Num(IF id = 1 THEN 1 ELSE 2), Undef), 1)
    \/ \E fn \in {"vetoAge1", "throws"} : CreateTrigger("users", "a", fn)
    \/ \E fn \in {"veto", "zero", "null"} : CreateTrigger("users", "b", fn)
    \/ \E name \in TriggerNames : DropTrigger("users", name)
    \/ conditions = NoConditions /\ Where("age", Num(1), "AND")
    \/ Update("users", Row(Undef, Undef, Str(<<"b">>)), 1)
    \/ Delete("users", 1)

SpecTriggers == InitTriggers /\ [][NextTriggers]_vars

\* SpecTxn: a transaction whose callback mutates "users" in every way but
\* insert, and then returns or raises; the rows are inserted outside.
NextTxn ==
    \/ CreateTable("users", NoSchema)
    \/ txn = <<>> /\ Insert("users", Row(AUTO_INCREMENT, Num(1), Undef), 1)
    \/ txn = <<>> /\ TransactionBegin
    \/ txn # <<>> /\ Update("users", Row(Undef, Num(2), Undef), 1)
    \/ txn # <<>> /\ Delete("users", 1)
    \/ txn # <<>> /\ Truncate("users")
    \/ txn # <<>> /\ SetTable("users", ArrayOf(<<Row(Num(2), Num(2), Undef)>>), NoSchema, 1)
    \/ txn # <<>> /\ DropTable("users")
    \/ txn # <<>> /\ AddColumn("users", "name", Null)
    \/ txn # <<>> /\ DropColumn("users", "age")
    \/ TransactionCommit
    \/ TransactionRollback

SpecTxn == Init /\ [][NextTxn]_vars

\* SpecNested: transactions inside the callbacks of transactions; the
\* callbacks update, delete and truncate the rows inserted beforehand.
NextNested ==
    \/ CreateTable("users", NoSchema)
    \/ txn = <<>> /\ Insert("users", Row(AUTO_INCREMENT, Num(1), Undef), 1)
    \/ TransactionBegin
    \/ txn # <<>> /\ Update("users", Row(Undef, Num(2), Undef), 1)
    \/ txn # <<>> /\ Delete("users", 1)
    \/ txn # <<>> /\ Truncate("users")
    \/ TransactionCommit
    \/ TransactionRollback

SpecNested == Init /\ [][NextNested]_vars

\* SpecDrop: tables with a schema, a relation, a trigger and indexes, created
\* and dropped; "users:old" is a table whose name begins with "users:".
DropNames == {"users", "users:old"}

NextDrop ==
    \/ CreateTable("users", UserSchema)
    \/ CreateTable("users:old", NoSchema)
    \/ Insert("users:old", Row(AUTO_INCREMENT, Num(1), Str(<<"a">>)), 1)
    \/ CreateTrigger("users", "a", "pass")
    \/ \E t \in DropNames : CreateIndex(t, <<"age">>)
    \/ SetRelation("users", "users:old", "hasOne", "user_id")
    \/ \E t \in DropNames : DropTable(t)

SpecDrop == Init /\ [][NextDrop]_vars

\* SpecLifetime: the table "users" with a trigger and an index, dropped,
\* restored from a backup, and created inside transactions.
NextLifetime ==
    \/ CreateTable("users", NoSchema)
    \/ CreateTrigger("users", "a", "pass")
    \/ CreateIndex("users", <<"age">>)
    \/ DropTable("users")
    \/ Backup
    \/ snap.held /\ Restore(snap)
    \/ txn = <<>> /\ TransactionBegin
    \/ TransactionCommit
    \/ TransactionRollback

SpecLifetime == Init /\ [][NextLifetime]_vars

\* SpecLastId: inserts with ids the store assigns or the caller gives, into
\* a table that exists or not, with or without a vetoing trigger, and
\* getLastInsertId().
NextLastId ==
    \/ CreateTable("users", NoSchema)
    \/ \E t \in Common, id \in {AUTO_INCREMENT, Num(2)} :
          Insert(t, Row(id, Num(1), Undef), 1)
    \/ \E fn \in {"veto", "pass"} : CreateTrigger("users", "a", fn)
    \/ DropTrigger("users", "a")
    \/ Truncate("users")
    \/ GetLastInsertId

SpecLastId == Init /\ [][NextLastId]_vars

\* SpecPages: pages of one or two rows of "users", with and without
\* softDelete, some rows deleted; the caller's ids increase.
NextPages ==
    \/ CreateTable("users", NoSchema)
    \/ \E id \in 1..MaxRows :
          /\ Has("users") => \A i \in 1..Len(RowsOf("users")) :
                                RowsOf("users")[i].id.n < id
          /\ Insert("users", Row(Num(id), Num(id), Undef), 1)
    \/ conditions = NoConditions /\ Where("id", Num(1), "AND")
    \/ Delete("users", 1)
    \/ \E t \in Common, page \in 1..3, perPage \in 1..2 : Paginate(t, page, perPage)

SpecPages == InitTriggers /\ [][NextPages]_vars

\* SpecJoin: "posts" joined with "users" on the age column, and "users" with
\* itself; two users can have the same age, and a post an age no user has.
NextJoin ==
    \/ \E t \in Common : CreateTable(t, NoSchema)
    \/ \E age \in 1..2 : Insert("users", Row(AUTO_INCREMENT, Num(age), Str(<<"a">>)), 1)
    \/ \E age \in 1..2 : Insert("posts", Row(AUTO_INCREMENT, Num(age), Undef), 1)
    \/ conditions = NoConditions /\ Where("age", Num(1), "AND")
    \/ Join("posts", "users", "age", "age")
    \/ Join("users", "users", "id", "age")

SpecJoin == Init /\ [][NextJoin]_vars

\* SpecSetTable: setTable with and without timestamps, on a table that exists
\* or not, with data that is no array, rows that satisfy AgeSchema, a row
\* that violates it, and a row that brings its own created_at.
InitSetTable == \E ts \in BOOLEAN : Constructed(ts, FALSE)

SetTableData ==
    {NotArray, ArrayOf(<<>>),
     ArrayOf(<<Row(Num(1), Num(1), Undef)>>),
     ArrayOf(<<Row(Num(1), Num(1), Undef), Row(Num(2), Num(2), Undef)>>),
     ArrayOf(<<[Row(Num(3), Num(1), Undef) EXCEPT !.created_at = Str(<<"T", "0">>)]>>)}

NextSetTable ==
    \/ CreateTable("users", NoSchema)
    \/ Insert("users", Row(AUTO_INCREMENT, Num(2), Undef), 1)
    \/ \E data \in SetTableData, schema \in {NoSchema, AgeSchema} :
          SetTable("users", data, schema, 2)

SpecSetTable == InitSetTable /\ [][NextSetTable]_vars

\* SpecErrors: calls that fail and calls that do not: fromJSON of texts that
\* do not parse, of a value that is no array and of an array; restore of the
\* caller's backup, whole or lacking its data or its metadata; inserts into
\* an absent table; transactions rolled back.
NextErrors ==
    \/ CreateTable("users", NoSchema)
    \/ Insert("posts", Row(AUTO_INCREMENT, Num(1), Undef), 1)
    \/ \E jsonData \in {BadJson, JsonOf(NotArray),
                        JsonOf(ArrayOf(<<Row(Num(1), Num(1), Undef)>>))} :
          FromJSON("users", jsonData, 1)
    \/ Backup
    \/ snap.held /\ \E shape \in {"ok", "noData", "noMetadata"} :
          Restore([snap EXCEPT !.shape = shape])
    \/ txn = <<>> /\ TransactionBegin
    \/ TransactionRollback
    \/ GetLastError

SpecErrors == Init /\ [][NextErrors]_vars

\* SpecSlice: get with a limit of one or two rows from offset 0 to 3, with
\* or without a where-condition and a descending order pending, with and
\* without softDelete, rows deleted or not; the caller's ids increase, the
\* row of id 1 has age 1 and the others age 2.
NextSlice ==
    \/ CreateTable("users", NoSchema)
    \/ \E id \in 1..MaxRows :
          /\ Has("users") => \A i \in 1..Len(RowsOf("users")) :
                                RowsOf("users")[i].id.n < id
          /\ Insert("users", Row(Num(id), Num(IF id = 1 THEN 1 ELSE 2), Undef), 1)
    \/ conditions.whereConditions = <<>>
       /\ \E f \in {"id", "age"} : Where(f, Num(2), "AND")
    \/ conditions.orderBy = <<>> /\ OrderBy("id", "DESC")
    \/ conditions.limit = Null
       /\ \E limit \in 1..2, offset \in 0..3 : Limit(limit, offset)
    \/ Delete("users", 1)
    \/ Get("users")

SpecSlice == InitTriggers /\ [][NextSlice]_vars

\* SpecCallers: two callers share the handle and never interleave.  Each
\* runs where("age", v) once or more and then get(T), the first with v = 1
\* on "users", the second with v = 2 on "posts"; a caller starts only when
\* the call before was not a where, and goes on only after its own where.
\* Tables are created and rows inserted between two sequences.
Callers == {"users", "posts"}

Built(caller) == Num(IF caller = "users" THEN 1 ELSE 2)

Building(caller) == last.op = "where" /\ last.arg = Built(caller)

NextCallers ==
    \/ \E t \in Common : last.op # "where" /\ CreateTable(t, NoSchema)
    \/ \E t \in Common, age \in 1..2 :
          last.op # "where" /\ Insert(t, Row(AUTO_INCREMENT, Num(age), Undef), 1)
    \/ \E c \in Callers :
          /\ last.op = "where" => Building(c)
          /\ Where("age", Built(c), "AND")
    \/ \E c \in Callers : Building(c) /\ Get(c)

SpecCallers == Init /\ [][NextCallers]_vars

\* SpecTruncate: truncate of "users" and "posts" with softDelete on.  The
\* tables, a row of "posts", a relationship and a trigger on "users" are set
\* up first, in this order; then rows of "users" are inserted and
\* soft-deleted, a where-condition is built and an index created, in any
\* order, and the tables truncated.
InitTruncate == Constructed(FALSE, TRUE)

SetUp == triggers["users"] # <<>>

NextTruncate ==
    \/ ~SetUp /\ CreateTable("users", NoSchema)
    \/ ~SetUp /\ Has("users") /\ CreateTable("posts", NoSchema)
    \/ Has("posts") /\ RowsOf("posts") = <<>>
       /\ Insert("posts", Row(AUTO_INCREMENT, Num(1), Undef), 1)
    \/ Has("posts") /\ RowsOf("posts") # <<>> /\ RelView.has = {}
       /\ SetRelation("users", "posts", "hasOne", "user_id")
    \/ RelView.has # {} /\ ~SetUp /\ CreateTrigger("users", "a", "throws")
    \/ \E id \in 1..MaxRows :
          /\ SetUp
          /\ \A i \in 1..Len(RowsOf("users")) : RowsOf("users")[i].id.n < id
          /\ Insert("users", Row(Num(id), Num(IF id = 1 THEN 1 ELSE 2), Undef), 1)
    \/ SetUp /\ indexes.entries = {} /\ CreateIndex("users", <<"age">>)
    \/ SetUp /\ conditions = NoConditions /\ Where("age", Num(1), "AND")
    \/ SetUp /\ Delete("users", 1)
    \/ \E t \in Common : SetUp /\ Truncate(t)

SpecTruncate == InitTruncate /\ [][NextTruncate]_vars

\* SpecIndex: an index on "users" by age and name, created before, between
\* and after inserts, updates, deletes and truncates, and reads with and
\* without a where-condition pending.  The caller's ids increase, the row
\* of id 1 has age 1 and the others age 2, and name is never set.
NextIndex ==
    \/ CreateTable("users", NoSchema)
    \/ \E id \in 1..MaxRows :
          /\ Has("users") => \A i \in 1..Len(RowsOf("users")) :
                                RowsOf("users")[i].id.n < id
          /\ Insert("users", Row(Num(id), Num(IF id = 1 THEN 1 ELSE 2), Undef), 1)
    \/ CreateIndex("users", <<"age", "name">>)
    \/ conditions = NoConditions /\ Where("age", Num(1), "AND")
    \/ Update("users", Row(Undef, Num(2), Undef), 1)
    \/ Delete("users", 1)
    \/ Truncate("users")
    \/ Get("users")

SpecIndex == Init /\ [][NextIndex]_vars

\* SpecBulk: bulkInsert into "users" and "posts" of up to MaxRows + 1
\* elements, the i-th either null or a row of age i with the AUTO_INCREMENT
\* sentinel; only "users" is created, and truncate makes room again.
BulkData(n) ==
    {[i \in 1..n |-> IF i \in nulls THEN Null
                     ELSE Row(AUTO_INCREMENT, Num(i), Undef)] :
        nulls \in SUBSET (1..n)}

NextBulk ==
    \/ CreateTable("users", NoSchema)
    \/ \E n \in 0..(MaxRows + 1) : \E dataArray \in BulkData(n) :
          BulkInsert("users", dataArray, 1)
    \/ \E n \in 0..1 : \E dataArray \in BulkData(n) :
          BulkInsert("posts", dataArray, 1)
    \/ Truncate("users")

SpecBulk == Init /\ [][NextBulk]_vars

\* SpecUndrop: "users" and then "posts" are created with a schema, each
\* gets a trigger, and "users" a row and an index; a transaction begins only
\* when "users" has all of them, its callback drops "users" and returns or
\* raises.  Outside transactions the caller takes one backup and restores
\* it, inserts, and asks for the schema of "users".
NextUndrop ==
    \/ txn = <<>> /\ ~Has("users") /\ CreateTable("users", AgeSchema)
    \/ txn = <<>> /\ Has("users") /\ ~Has("posts") /\ CreateTable("posts", AgeSchema)
    \/ \E t \in Common : txn = <<>> /\ Has("posts") /\ triggers[t] = <<>>
                         /\ CreateTrigger(t, "a", "pass")
    \/ txn = <<>> /\ Has("users")
       /\ Insert("users", Row(AUTO_INCREMENT, Num(1), Undef), 1)
    \/ txn = <<>> /\ Has("users") /\ RowsOf("users") # <<>> /\ indexes.entries = {}
       /\ CreateIndex("users", <<"age">>)
    \/ /\ txn = <<>> /\ Has("users") /\ RowsOf("users") # <<>>
       /\ triggers["users"] # <<>> /\ schemas.of["users"] # NoSchema
       /\ TransactionBegin
    \/ txn # <<>> /\ DropTable("users")
    \/ TransactionCommit
    \/ TransactionRollback
    \/ txn = <<>> /\ GetSchema("users")
    \/ txn = <<>> /\ ~snap.held /\ Backup
    \/ txn = <<>> /\ snap.held /\ Restore(snap)

SpecUndrop == Init /\ [][NextUndrop]_vars

\* SpecReentrant: update and delete of "users" with a where-condition on age
\* pending or not, the table having a trigger that returns undefined, after
\* calling count() on the same handle or without calling anything.  The
\* caller's ids increase; the row of id 1 has age 1 and the others age 2.
NextReentrant ==
    \/ CreateTable("users", NoSchema)
    \/ \E id \in 1..MaxRows :
          /\ Has("users") => \A i \in 1..Len(RowsOf("users")) :
                                RowsOf("users")[i].id.n < id
          /\ Insert("users", Row(Num(id), Num(IF id = 1 THEN 1 ELSE 2), Undef), 1)
    \/ \E fn \in {"pass", "reads"} :
          triggers["users"] = <<>> /\ CreateTrigger("users", "a", fn)
    \/ conditions = NoConditions /\ Where("age", Num(1), "AND")
    \/ Update("users", Row(Undef, Undef, Str(<<"b">>)), 1)
    \/ Delete("users", 1)

SpecReentrant == Init /\ [][NextReentrant]_vars

\* ------------------------------------------------------------------- claims

\* C1: when a transaction callback has made only inserts into existing tables
\* (at least one) and then raised, the table -> rows mapping after
\* transaction() has raised is the mapping held when it was called.
C1_RollbackAfterInserts ==
    (last.op = "transaction" /\ last.err = "CallbackError"
        /\ last.calls = {"insert"})
    => View = last.before

\* C2: restore(snapshot), whatever mutations followed backup(), yields the
\* table -> rows and relationship mappings held when backup() was called.
C2_RestoreYieldsBackupState ==
    (last.op = "restore" /\ last.err = "")
    => (View = snap.view /\ RelView = snap.relView)

\* C3: insert(T, r) of a row r that violates the schema T was created with
\* raises a schema validation error and leaves T's row count unchanged.
C3_InsertRejectsViolatingRow ==
    (last.op = "insert" /\ last.tbl \in Names
        /\ schemas.of[last.tbl] # NoSchema
        /\ validateSchema(<<last.arg>>, schemas.of[last.tbl]) # "")
    => (last.err = "SchemaValidationError"
          /\ Len(RowsOf(last.tbl)) = Len(last.before))

\* The id a stored row counts with in _getNextId: parseInt(id) || 0.
IdNumber(row) == OrElse(ParseInt(row.id), Num(0)).n

\* The last call was an AUTO_INCREMENT insert into an existing table.
AutoInserted ==
    last.op = "insert" /\ last.err = "" /\ StrictEq(last.arg.id, AUTO_INCREMENT)

\* C4 as claimed: the id an AUTO_INCREMENT insert assigns is greater than
\* every id assigned before in the same table, whatever deletes and truncates
\* came in between.  (assigned holds the greatest id assigned so far.)
C4_IdsNeverRepeat ==
    [][\A t \in Names :
         (last'.op = "insert" /\ last'.tbl = t /\ last'.err = ""
            /\ StrictEq(last'.arg.id, AUTO_INCREMENT) /\ assigned[t] # <<>>)
         => last'.ret.id.n > assigned[t][1]]_vars

\* C4 as amended: the id an AUTO_INCREMENT insert assigns is greater than the
\* id of every row the table holds at that moment.
C4_IdAboveStoredIds ==
    AutoInserted =>
        \A i \in 1..Len(last.before) : IdNumber(last.before[i]) < last.ret.id.n

\* An AUTO_INCREMENT insert into a table that held a row got its id.
C4_Witness ==
    AutoInserted /\ Len(last.before) > 0 /\ last.ret.id.n > 1
       /\ Len(RowsOf(last.tbl)) = Len(last.before) + 1

\* The greatest of a non-empty sequence of rows' id numbers and 0.
MaxIdOrZero(rows) == Max({IdNumber(rows[i]) : i \in 1..Len(rows)} \cup {0})

\* C5 as claimed: an AUTO_INCREMENT insert stores the row with
\* id = max(integer ids of the rows in the same table, 0) + 1.
C5_IdIsMaxOrZeroPlusOne ==
    AutoInserted => last.ret.id = Num(MaxIdOrZero(last.before) + 1)

\* C5 as amended: the id is 1 for an empty table and otherwise one more than
\* the greatest parseInt(id) || 0 of the table's own rows (which is below 1
\* when all of them are negative); it is computed from that table only, it
\* is the id of the row stored last, and no row stored before has it.
C5_IdIsMaxPlusOne ==
    AutoInserted =>
        /\ last.ret.id =
              IF Len(last.before) = 0 THEN Num(1)
              ELSE Num(Max({IdNumber(last.before[i]) :
                              i \in 1..Len(last.before)}) + 1)
        /\ RowsOf(last.tbl) = Append(last.before, last.ret)
        /\ \A i \in 1..Len(last.before) :
              ~StrictEq(last.before[i].id, last.ret.id)

\* An AUTO_INCREMENT insert into "users" while "posts" holds a greater id.
C5_Witness ==
    /\ AutoInserted /\ last.tbl = "users" /\ Len(last.before) > 0
    /\ Has("posts") /\ Len(RowsOf("posts")) > 0
    /\ \A i \in 1..Len(RowsOf("posts")) : IdNumber(RowsOf("posts")[i]) > last.ret.id.n

\* C6: absent triggers, the rows update (resp. delete) modifies are exactly
\* the rows the where-step of get selects for the same pending conditions:
\* update merges the data into those rows and leaves the others, delete
\* removes those rows and keeps the others.
C6_WritesSelectAsReads ==
    /\ (last.op = "update" /\ last.err = "" /\ triggers[last.tbl] = <<>>)
       => RowsOf(last.tbl) =
            [i \in 1..Len(last.before) |->
                IF MatchesAll(last.before[i], last.cond.whereConditions)
                THEN Spread(last.before[i], last.arg)
                ELSE last.before[i]]
    /\ (last.op = "delete" /\ last.err = "" /\ triggers[last.tbl] = <<>>)
       => RowsOf(last.tbl) =
            SelectSeq(last.before,
                      LAMBDA row : ~MatchesAll(row, last.cond.whereConditions))

\* The terminal calls.
Terminals ==
    {"get", "getOne", "count", "distinct", "avg", "sum", "min", "max", "groupBy",
     "toJSON", "paginate", "exists", "update", "delete"}

\* C7: after any terminal call that returns, the condition state is reset:
\* no where-conditions, no search-conditions, no order, no limit, offset 0.
C7_ReturnResetsConditions ==
    (last.op \in Terminals /\ last.err = "")
    => /\ conditions.whereConditions = <<>>
       /\ conditions.searchConditions = <<>>
       /\ conditions.orderBy = <<>>
       /\ conditions.limit = Null
       /\ conditions.offset = 0

\* A terminal call returned that had a where-condition and a limit pending.
C7_Witness ==
    /\ last.op \in Terminals /\ last.err = ""
    /\ last.cond.whereConditions # <<>>
    /\ last.cond.limit # Null
    /\ conditions = NoConditions

\* C8: after get, update or delete on an absent table has raised
\* TableNotFound, the conditions built for that call are gone.
C8_FailureClearsConditions ==
    (last.op \in {"get", "update", "delete"} /\ last.err = "TableNotFound")
    => conditions = NoConditions

\* The conditions are those of where(f1, v1).orWhere(f2, v2) and nothing else.
WhereOrWhere(cond) ==
    /\ Len(cond.whereConditions) = 2
    /\ cond.whereConditions[1].operator = "AND"
    /\ cond.whereConditions[2].operator = "OR"
    /\ cond.searchConditions = <<>>
    /\ cond.orderBy = <<>>
    /\ cond.limit = Null

Undeleted(rows) == SelectSeq(rows, LAMBDA row : row.deleted_at \in {Undef, Null})

\* The reads and aggregate helpers.
Reads ==
    {"get", "getOne", "count", "exists", "distinct", "sum", "avg", "min", "max",
     "groupBy"}

\* What a read answers from the rows rs it gets.
Answer(op, rs, column) ==
    CASE op = "get" -> rs
      [] op = "getOne" -> IF Len(rs) > 0 THEN rs[1] ELSE Null
      [] op = "count" -> Num(Len(rs))
      [] op = "exists" -> Bool(Len(rs) > 0)
      [] op = "distinct" -> Uniq(Column(rs, column), {})
      [] op = "sum" -> Reduce(Column(rs, column), Num(0))
      [] op = "avg" -> IF Len(rs) = 0 THEN Num(0)
                       ELSE Divide(ToNumber(Reduce(Column(rs, column), Num(0))),
                                   Len(rs))
      [] op = "min" -> IF Len(rs) = 0 THEN Null ELSE MathMin(Column(rs, column))
      [] op = "max" -> IF Len(rs) = 0 THEN Null ELSE MathMax(Column(rs, column))
      [] op = "groupBy" ->
           [key \in {ToStr(rs[i][column]) : i \in 1..Len(rs)} |->
              SelectSeq(rs, LAMBDA row : ToStr(row[column]) = key)]

\* C10: with softDelete enabled, a delete keeps every row and the row count,
\* and stamps a non-null deleted_at on the rows it matches; get, count and
\* the aggregate helpers answer as if the marked rows were not stored; a
\* truncate leaves the table with no row.
C10_SoftDelete ==
    softDelete =>
      /\ (last.op = "delete" /\ last.err = "" /\ triggers[last.tbl] = <<>>)
         => /\ Len(RowsOf(last.tbl)) = Len(last.before)
            /\ \A i \in 1..Len(last.before) :
                 IF EveryEqual(last.before[i], last.cond.whereConditions)
                 THEN /\ RowsOf(last.tbl)[i].deleted_at \notin {Undef, Null}
                      /\ RowsOf(last.tbl)[i] =
                           [last.before[i] EXCEPT
                              !.deleted_at = RowsOf(last.tbl)[i].deleted_at]
                 ELSE RowsOf(last.tbl)[i] = last.before[i]
      /\ (last.op \in Reads /\ last.err = "")
         => \E rs \in applyConditions(Undeleted(last.before), last.cond) :
              last.ret = Answer(last.op, rs,
                                IF last.arg = Undef THEN "" ELSE last.arg.s[1])
      /\ (last.op = "truncate" /\ last.err = "") => RowsOf(last.tbl) = <<>>

\* count() ran on a table that holds a row marked as deleted and a row that
\* is not, and answered 1.
C10_Witness ==
    /\ softDelete
    /\ last.op = "count" /\ last.err = "" /\ last.cond = NoConditions
    /\ Len(last.before) = 2
    /\ Len(Undeleted(last.before)) = 1
    /\ last.ret = Num(1)

\* C11: when updateSchema(T, S) raises a schema validation error, T's schema
\* is the schema that was stored before the call.
C11_FailedUpdateKeepsSchema ==
    [][(last'.op = "updateSchema" /\ last'.err = "SchemaValidationError")
       => schemas'.of[last'.tbl] = schemas.of[last'.tbl]]_vars

\* Whether the callback of trigger t answers false to the invocation.
Vetoes(t, operation, old, new) ==
    t.fn # "throws" /\ Returned(t.fn, operation, old, new) = Bool(FALSE)

\* Whether some trigger of ts answers false to the invocation.
Vetoed(ts, operation, old, new) ==
    \E i \in 1..Len(ts) : Vetoes(ts[i], operation, old, new)

\* One invocation of every trigger of ts, in registration order.
Invocations(ts, operation, old, new) ==
    [i \in 1..Len(ts) |->
        [name |-> ts[i].name, operation |-> operation, old |-> old, new |-> new]]

\* The invocations of an update or delete over rows: those for the rows that
\* match the conditions cs, in row order.
RECURSIVE InvocationsOver(_, _, _, _, _)
InvocationsOver(rows, cs, ts, operation, data) ==
    IF rows = <<>> THEN <<>>
    ELSE (IF EveryEqual(Head(rows), cs)
          THEN Invocations(ts, operation, Head(rows),
                           IF operation = "update" THEN Spread(Head(rows), data)
                           ELSE Null)
          ELSE <<>>)
         \o InvocationsOver(Tail(rows), cs, ts, operation, data)

\* The callbacks of ts do not call the store.
Plain(ts) == \A i \in 1..Len(ts) : ts[i].fn # "reads"

\* C12: on update and delete the veto is per row: a matching row for which a
\* trigger returns false is left as it was, the other matching rows are
\* merged, removed or stamped, and the triggers are invoked for the matching
\* rows only.
C12_VetoIsPerRow ==
    LET ts == triggers[last.tbl]
        cs == last.cond.whereConditions
        hit(row, operation, new) ==
            EveryEqual(row, cs) /\ ~Vetoed(ts, operation, row, new)
    IN  /\ (last.op = "update" /\ last.err = "" /\ Plain(ts))
           => /\ RowsOf(last.tbl) =
                   [i \in 1..Len(last.before) |->
                      IF hit(last.before[i], "update",
                             Spread(last.before[i], last.arg))
                      THEN Spread(last.before[i], last.arg)
                      ELSE last.before[i]]
              /\ last.fired = InvocationsOver(last.before, cs, ts, "update", last.arg)
        /\ (last.op = "delete" /\ last.err = "" /\ Plain(ts))
           => /\ last.fired = InvocationsOver(last.before, cs, ts, "delete", Null)
              /\ IF softDelete
                 THEN /\ Len(RowsOf(last.tbl)) = Len(last.before)
                      /\ \A i \in 1..Len(last.before) :
                           IF hit(last.before[i], "delete", Null)
                           THEN /\ RowsOf(last.tbl)[i].deleted_at \notin {Undef, Null}
                                /\ [RowsOf(last.tbl)[i] EXCEPT !.deleted_at = Undef]
                                     = [last.before[i] EXCEPT !.deleted_at = Undef]
                           ELSE RowsOf(last.tbl)[i] = last.before[i]
                 ELSE RowsOf(last.tbl) =
                        SelectSeq(last.before,
                                  LAMBDA row : ~hit(row, "delete", Null))

\* An update matched two rows; a trigger vetoed the first, which is as it
\* was, and the second was merged.
C12_Witness ==
    /\ last.op = "update" /\ last.err = "" /\ Len(last.before) = 2
    /\ last.cond.whereConditions = <<>>
    /\ Vetoed(triggers[last.tbl], "update", last.before[1],
              Spread(last.before[1], last.arg))
    /\ RowsOf(last.tbl)[1] = last.before[1]
    /\ RowsOf(last.tbl)[2] # last.before[2]

\* C13: insert into an existing table invokes every trigger of the table once,
\* in order, with (null, the new row), whatever the earlier ones returned; the
\* row is appended iff none returned false.
C13_InsertFiresEveryTrigger ==
    (last.op = "insert" /\ last.err = "")
    => LET ts == triggers[last.tbl]
       IN  /\ last.fired = Invocations(ts, "insert", Null, last.ret)
           /\ RowsOf(last.tbl) =
                IF Vetoed(ts, "insert", Null, last.ret) THEN last.before
                ELSE Append(last.before, last.ret)

\* An insert whose first trigger returned false invoked the second as well
\* and appended nothing.
C13_Witness ==
    /\ last.op = "insert" /\ last.err = ""
    /\ Len(triggers[last.tbl]) = 2
    /\ triggers[last.tbl][1].fn = "veto"
    /\ Len(last.fired) = 2
    /\ RowsOf(last.tbl) = last.before

\* C14: a trigger that raises neither aborts nor vetoes: the call returns,
\* every trigger is invoked for every row concerned, and when no trigger
\* returns false the row is appended, and every matching row merged, removed
\* or stamped.
C14_RaisingTriggerIsNoVeto ==
    LET ts == triggers[last.tbl]
        cs == last.cond.whereConditions
        matching == {i \in 1..Len(last.before) : EveryEqual(last.before[i], cs)}
        free(operation) ==
            \A i \in 1..Len(last.before) :
                ~Vetoed(ts, operation, last.before[i],
                        IF operation = "update"
                        THEN Spread(last.before[i], last.arg) ELSE Null)
    IN  (/\ last.op \in {"insert", "update", "delete"}
         /\ last.err # "TableNotFound"
         /\ Plain(ts)
         /\ \E i \in 1..Len(ts) : ts[i].fn = "throws")
        => /\ last.err = ""
           /\ last.op = "insert"
              => /\ Len(last.fired) = Len(ts)
                 /\ ~Vetoed(ts, "insert", Null, last.ret)
                    => RowsOf(last.tbl) = Append(last.before, last.ret)
           /\ last.op = "update"
              => /\ Len(last.fired) = Len(ts) * Cardinality(matching)
                 /\ free("update")
                    => \A i \in matching :
                         RowsOf(last.tbl)[i] = Spread(last.before[i], last.arg)
           /\ last.op = "delete"
              => /\ Len(last.fired) = Len(ts) * Cardinality(matching)
                 /\ free("delete")
                    => IF softDelete
                       THEN \A i \in matching :
                              RowsOf(last.tbl)[i].deleted_at \notin {Undef, Null}
                       ELSE Len(RowsOf(last.tbl))
                              = Len(last.before) - Cardinality(matching)

\* A hard delete removed a row although the first trigger of the table
\* raised; the second trigger was invoked and returned 0 or null.
C14_Witness ==
    /\ last.op = "delete" /\ last.err = "" /\ ~softDelete
    /\ Len(triggers[last.tbl]) = 2
    /\ triggers[last.tbl][1].fn = "throws"
    /\ Len(last.fired) = 2
    /\ Len(last.before) = 1
    /\ RowsOf(last.tbl) = <<>>

\* C15: transaction(callback) on a callback that made no insert and raised
\* ends with the table -> rows mapping held at entry, and raises; on a
\* callback that returned it keeps what the callback left.
C15_RollbackWithoutInserts ==
    [][last'.op = "transaction"
       => IF last'.err = ""
          THEN View' = View /\ RelView' = RelView
          ELSE /\ last'.err = "CallbackError"
               /\ "insert" \notin last'.calls => View' = last'.before]_vars

\* A transaction whose callback changed the rows without inserting was
\* rolled back to the rows held at entry.
C15_Witness ==
    /\ last.op = "transaction" /\ last.err = "CallbackError"
    /\ last.calls = {"other"}
    /\ Has("users") /\ Len(RowsOf("users")) = 2
    /\ last.left # last.before
    /\ View = last.before

\* The step ends a transaction() called inside the callback of another, its
\* callback having raised, and no callback in progress has inserted.
InnerRollback ==
    /\ Len(txn) >= 2
    /\ last'.op = "transaction" /\ last'.err = "CallbackError"
    /\ \A i \in 1..Len(txn) : "insert" \notin txn[i].calls

\* C16 as stated: the rollback of a transaction nested in another restores
\* the rows held at entry of the outer transaction.
C16_InnerRollbackRestoresOuter ==
    [][InnerRollback => View' = txn[Len(txn) - 1].backup.view]_vars

\* C16: the rollback of a transaction nested in another restores the rows
\* held at entry of the nested transaction, and leaves the snapshot of the
\* outer one as it was, for the outer rollback if the failure goes on.
C16_InnerRollbackRestoresInner ==
    [][InnerRollback
       => /\ View' = txn[Len(txn)].backup.view
          /\ Len(txn') = Len(txn) - 1
          /\ txn'[Len(txn')].backup.view = txn[Len(txn) - 1].backup.view]_vars

\* A nested transaction was rolled back to rows that differ from those at
\* entry of the outer transaction, whose callback is still running.
C16_Witness ==
    /\ Len(txn) = 1 /\ txn[1].calls = {"other"}
    /\ last.op = "transaction" /\ last.err = "CallbackError"
    /\ last.left # last.before
    /\ View = last.before
    /\ View # txn[1].backup.view

\* C17: a dropTable(name) that finds the table leaves no table, schema,
\* trigger, relationship list or index of name and keeps the indexes built
\* for the other tables; one that finds no table changes nothing.
C17_DropTableRemovesOwnOnly ==
    [][\A t \in Names :
         (last'.op = "dropTable" /\ last'.tbl = t)
         => IF last'.err = ""
            THEN /\ Has(t) /\ ~Has(t)'
                 /\ schemas'.of[t] = NoSchema
                 /\ triggers'[t] = <<>>
                 /\ relationships'[t] = 0
                 /\ \A e \in indexes'.entries : e.of # t
                 /\ \A e \in indexes.entries : e.of # t => e \in indexes'.entries
            ELSE /\ ~Has(t) /\ last'.err = "TableNotFound"
                 /\ UNCHANGED <<store, meta>>]_vars

\* C18: every table that has a trigger or an index exists.
C18_MetadataOfExistingTables ==
    \A t \in Names :
        (triggers[t] # <<>> \/ \E e \in indexes.entries : e.of = t) => Has(t)

\* The names of the triggers ts.
TriggerNamesOf(ts) == {ts[i].name : i \in 1..Len(ts)}

Appended(t) ==
    /\ last'.op = "insert" /\ last'.tbl = t /\ last'.err = ""
    /\ Has(t) /\ Len(RowsOf(t)') = Len(RowsOf(t)) + 1

\* C20: getLastInsertId() returns the id of the row the most recent
\* appending insert appended: an insert that appends a row makes it that
\* row's id, and inserts that append nothing, and all other calls, leave what
\* it returns as it was (null from construction on).
C20_LastInsertIdOfAppendedRow ==
    [][/\ \A t \in Names :
            Appended(t)
            => LastInsertIdOrNull' = RowsOf(t)'[Len(RowsOf(t)')].id
       /\ (\A t \in Names : ~Appended(t))
          => LastInsertIdOrNull' = LastInsertIdOrNull
       /\ last'.op = "getLastInsertId" => last'.ret = LastInsertIdOrNull]_vars

\* C21: paginate(T, page, perPage) with no pending conditions returns the
\* visible rows at positions [(page-1)*perPage, page*perPage), their number
\* as total, the least number of pages of perPage rows that hold them as
\* totalPages, hasNextPage = (page < totalPages), hasPrevPage = (page > 1).
C21_PaginateSlicesVisibleRows ==
    (last.op = "paginate" /\ last.err = "" /\ last.cond = NoConditions)
    => LET r == last.ret
           vis == IF softDelete THEN Undeleted(RowsOf(last.tbl)) ELSE RowsOf(last.tbl)
           N == Len(vis)
           from == (r.currentPage - 1) * r.perPage
           pages == CHOOSE k \in 0..N :
                      k * r.perPage >= N /\ (k - 1) * r.perPage < N
           held == IF N - from < 0 THEN 0
                   ELSE IF N - from < r.perPage THEN N - from ELSE r.perPage
       IN  /\ r.data = [i \in 1..held |-> vis[from + i]]
           /\ r.total = N
           /\ r.totalPages = pages
           /\ r.hasNextPage = (r.currentPage < pages)
           /\ r.hasPrevPage = (r.currentPage > 1)

\* Page 1 of two visible rows, one row a page: one row, two pages, a next
\* page and no previous one.
C21_Witness ==
    /\ last.op = "paginate" /\ last.err = "" /\ last.cond = NoConditions
    /\ last.ret.currentPage = 1 /\ last.ret.perPage = 1
    /\ last.ret.total = 2 /\ Len(last.ret.data) = 1
    /\ last.ret.totalPages = 2 /\ last.ret.hasNextPage /\ ~last.ret.hasPrevPage

\* The rows of data2 whose key2 value is the key1 value of row1.
Partners(row1, data2, key1, key2) ==
    {j \in 1..Len(data2) : data2[j][key2] = row1[key1]}

\* C22: join(t1, t2, k1, k2) returns one result per row of t1, in t1 order:
\* a row with no t2 row of its k1 value is returned as it is; the others
\* give the fields of the first such t2 row under t2 and their own fields
\* under t1 (under one name the t2 fields are written last). The tables and
\* the pending conditions are left as they were.
C22_JoinTakesFirstMatch ==
    [][(last'.op = "join" /\ last'.err = "")
       => LET t1 == last'.tbl
              t2 == last'.arg.table2
              k1 == last'.arg.key1
              k2 == last'.arg.key2
              out == last'.ret
          IN  /\ UNCHANGED <<store, conditions>>
              /\ Len(out) = Len(RowsOf(t1))
              /\ \A i \in 1..Len(out) :
                    LET row1 == RowsOf(t1)[i]
                        ms == Partners(row1, RowsOf(t2), k1, k2)
                    IN  IF ms = {}
                        THEN ~out[i].merged /\ out[i].row = row1
                        ELSE LET row2 == RowsOf(t2)[CHOOSE j \in ms : \A k \in ms : j <= k]
                             IN  /\ out[i].merged
                                 /\ \A f \in Fields :
                                      /\ row2[f] # Undef
                                         => out[i].fields[<<t2, f>>] = row2[f]
                                      /\ (t1 # t2 \/ row2[f] = Undef)
                                         => out[i].fields[<<t1, f>>] = row1[f]]_vars

\* A join of "posts" with "users" in which one post has the age of two users
\* and was merged with the first of them, and another post has no user.
C22_Witness ==
    /\ last.op = "join" /\ last.err = "" /\ last.tbl = "posts"
    /\ Len(last.ret) = 2
    /\ \E i \in 1..2 :
          /\ last.ret[i].merged
          /\ Cardinality(Partners(RowsOf("posts")[i], RowsOf("users"), "age", "age")) = 2
          /\ last.ret[i].fields[<<"users", "id">>] = Num(1)
    /\ \E i \in 1..2 : ~last.ret[i].merged

\* The rows a reader sees: all of them, or with softDelete the unmarked ones.
Seen(rows) == IF softDelete THEN Undeleted(rows) ELSE rows

\* C23 as stated: whatever conditions are pending, exists(name) on an
\* existing table tells whether the table holds a visible row.
C23_ExistsIffVisibleRow ==
    (last.op = "exists" /\ last.err = "")
    => last.ret = Bool(Seen(RowsOf(last.tbl)) # <<>>)

\* C23: exists(name) on an existing table tells whether some visible row
\* satisfies every pending where-condition (no search, limit or offset
\* pending); with nothing pending, whether the table holds a visible row.
C23_ExistsIffVisibleMatch ==
    (last.op = "exists" /\ last.err = ""
     /\ last.cond.searchConditions = <<>> /\ last.cond.limit = Null)
    => last.ret = Bool(\E i \in 1..Len(Seen(RowsOf(last.tbl))) :
                          EveryEqual(Seen(RowsOf(last.tbl))[i],
                                     last.cond.whereConditions))

\* exists() answered false on a table with a visible row, none of them
\* satisfying the pending condition.
C23_Witness ==
    /\ last.op = "exists" /\ last.err = ""
    /\ last.cond.whereConditions # <<>>
    /\ Seen(RowsOf(last.tbl)) # <<>>
    /\ Len(Seen(RowsOf(last.tbl))) < Len(RowsOf(last.tbl))
    /\ last.ret = Bool(FALSE)

\* C24: a setTable that raises leaves the tables, the relationships and the
\* rest of the store as they were; one that returns leaves the table with
\* exactly the rows given, in order, each with non-empty timestamps (its own
\* where it brings them) when timestamps are on, and the other tables as
\* they were.
C24_SetTableAllOrNothing ==
    [][\A t \in Names :
         (last'.op = "setTable" /\ last'.tbl = t)
         => IF last'.err # ""
            THEN View' = View /\ RelView' = RelView /\ UNCHANGED meta
            ELSE LET rows == last'.arg.rows
                     set == View'.rows[t]
                 IN  /\ last'.arg.isArray
                     /\ t \in View'.has
                     /\ Len(set) = Len(rows)
                     /\ \A i \in 1..Len(rows) :
                          IF timestamps
                          THEN /\ set[i] = [rows[i] EXCEPT
                                              !.created_at = set[i].created_at,
                                              !.updated_at = set[i].updated_at]
                               /\ Truthy(set[i].created_at)
                               /\ Truthy(set[i].updated_at)
                               /\ Truthy(rows[i].created_at)
                                  => set[i].created_at = rows[i].created_at
                               /\ Truthy(rows[i].updated_at)
                                  => set[i].updated_at = rows[i].updated_at
                          ELSE set[i] = rows[i]
                     /\ \A u \in Names \ {t} :
                          /\ (u \in View'.has) = (u \in View.has)
                          /\ View'.rows[u] = View.rows[u]]_vars

\* A setTable that raised on a row violating the schema, the table keeping
\* the rows it had.
C24_Witness ==
    /\ last.op = "setTable" /\ last.err = "SchemaValidationError"
    /\ Has(last.tbl) /\ last.before # <<>>
    /\ RowsOf(last.tbl) = last.before
    /\ last.arg.rows # last.before

\* The step is a fromJSON or a restore that raised.
ImportFailed == last'.op \in {"fromJSON", "restore"} /\ last'.err # ""

\* C25: getLastError() returns the stored error; a fromJSON or restore that
\* raises stores the error it caught (of JSON.parse, of setTable, or of
\* reading the backup), and no other step changes the stored error, which
\* is null from construction on.
C25_LastErrorOfFailedImports ==
    [][/\ ImportFailed
          => lastError' =
               IF last'.op = "restore" THEN Str(<<"TypeError">>)
               ELSE IF ~last'.arg.parses THEN Str(<<"SyntaxError">>)
               ELSE Str(<<"Error">>)
       /\ ~ImportFailed => lastError' = lastError
       /\ last'.op = "fromJSON"
          => (last'.err = "") = (last'.arg.parses /\ last'.arg.value.isArray)
       /\ last'.op = "getLastError" => last'.ret = lastError]_vars

\* getLastError() after a failing fromJSON, then a successful one: the error
\* of the failing call is still returned.
C25_Witness ==
    /\ last.op = "getLastError" /\ last.ret = Str(<<"SyntaxError">>)
    /\ Has("users") /\ Len(RowsOf("users")) = 1
    /\ RowsOf("users")[1].id = Num(1)

\* C26: get with limit L and offset O pending returns the elements at the
\* positions [O, O+L) of the sequence the same get gives without the limit
\* (visible rows, filtered, ordered): none when O is at or past its end.
C26_LimitSlicesAfterFiltering ==
    (last.op = "get" /\ last.err = "" /\ last.cond.limit # Null)
    => \E whole \in applyConditions(Seen(last.before),
                                    [last.cond EXCEPT !.limit = Null, !.offset = 0]) :
         LET O == last.cond.offset
             L == last.cond.limit.n
             held == IF Len(whole) - O < 0 THEN 0
                     ELSE IF Len(whole) - O < L THEN Len(whole) - O ELSE L
         IN  last.ret = [i \in 1..held |-> whole[O + i]]

\* A get with a where-condition and limit 1 that returned the second row
\* of the table, the only one satisfying the condition: the filter ran
\* before the slice.
C26_Witness ==
    /\ last.op = "get" /\ last.err = ""
    /\ last.cond.limit = Num(1) /\ last.cond.offset = 0
    /\ last.cond.whereConditions # <<>>
    /\ Len(last.before) = 2
    /\ last.ret = <<last.before[2]>>

\* C27: when the callers' build->terminal sequences do not interleave, every
\* terminal call evaluates the conditions its own caller built, and no
\* condition built by the other caller.
C27_OwnConditionsWhenNotInterleaved ==
    last.op = "get"
    => \A i \in 1..Len(last.cond.whereConditions) :
          last.cond.whereConditions[i].value = Built(last.tbl)

\* C28: truncate(T) on an existing table leaves T with no row at all, fires
\* no trigger, and leaves the pending conditions, the schemas, triggers and
\* indexes, the relationships and the rows of every other table as they were.
C28_TruncateRemovesEveryRow ==
    [][\A t \in Names :
         (last'.op = "truncate" /\ last'.tbl = t /\ Has(t))
         => /\ last'.err = ""
            /\ t \in View'.has /\ View'.rows[t] = <<>>
            /\ last'.fired = <<>>
            /\ UNCHANGED <<conditions, meta>>
            /\ RelView' = RelView
            /\ View'.has = View.has
            /\ \A u \in Names \ {t} : View'.rows[u] = View.rows[u]]_vars

\* A truncate of "users" that has just emptied it, with a where-condition
\* pending that one of its rows did not satisfy, a soft-deleted row among
\* them, a trigger and an index on the table and a row left in "posts".
C28_Witness ==
    /\ last.op = "truncate" /\ last.tbl = "users" /\ last.err = ""
    /\ conditions.whereConditions # <<>>
    /\ \E i \in 1..Len(last.before) : ~EveryEqual(last.before[i], conditions.whereConditions)
    /\ \E i \in 1..Len(last.before) : Truthy(last.before[i].deleted_at)
    /\ triggers["users"] # <<>>
    /\ indexes.entries # {}
    /\ Has("posts") /\ RowsOf("posts") # <<>>
    /\ RowsOf("users") = <<>>

\* The groups of an index hold the rows given, each row in the one group
\* with the key of its column values and in no other, and nothing else.
Groups(index, rows, columns) ==
    /\ \A g, h \in 1..Len(index) : index[g].key = index[h].key => g = h
    /\ \A i \in 1..Len(rows) :
          \E g \in 1..Len(index) :
             /\ index[g].key = IndexKey(rows[i], columns)
             /\ \E j \in 1..Len(index[g].rows) : index[g].rows[j] = rows[i]
             /\ \A h \in 1..Len(index) \ {g} :
                   \A j \in 1..Len(index[h].rows) : index[h].rows[j] # rows[i]
    /\ \A g \in 1..Len(index) :
          /\ index[g].rows # <<>>
          /\ \A j \in 1..Len(index[g].rows) :
                /\ \E i \in 1..Len(rows) : rows[i] = index[g].rows[j]
                /\ \A k \in 1..Len(index[g].rows) :
                      index[g].rows[k] = index[g].rows[j] => k = j

\* C29: createIndex(T, cols) stores under the key of (T, cols) a grouping
\* of the rows T holds then, each in exactly one group keyed by its cols
\* values; insert, update, delete and truncate leave every stored index as
\* it was; and what get returns is computed from the rows and the pending
\* conditions alone.
C29_IndexesStaleAndUnused ==
    [][/\ (last'.op = "createIndex" /\ last'.err = "")
          => \E e \in indexes'.entries :
                /\ e.key = IndexName(last'.tbl, last'.arg)
                /\ \A f \in indexes'.entries : f.key = e.key => f = e
                /\ Groups(e.index, RowsOf(last'.tbl), last'.arg)
       /\ last'.op \in {"insert", "update", "delete", "truncate"}
          => indexes' = indexes
       /\ (last'.op = "get" /\ last'.err = "")
          => /\ indexes' = indexes
             /\ last'.ret \in GetResults(RowsOf(last'.tbl), conditions, softDelete)]_vars

\* An update that has just changed the age of a row while the index by age
\* and name keeps its two groups, which are the groups of the rows before
\* the update and not those of the rows after it.
C29_Witness ==
    /\ last.op = "update" /\ last.err = ""
    /\ RowsOf("users") # last.before
    /\ \E e \in indexes.entries :
          /\ e.key = IndexName("users", <<"age", "name">>)
          /\ Len(e.index) = 2
          /\ Groups(e.index, last.before, <<"age", "name">>)
          /\ ~Groups(e.index, RowsOf("users"), <<"age", "name">>)

\* C30: bulkInsert(T, rows) inserts the rows in order up to the first whose
\* insert raises, the k-th: the rows before it stay appended to T in order,
\* after the rows T held, the k-th and those after it are not inserted, and
\* the call raises what that insert raised; when none raises every row is
\* appended.  On an absent table the first insert raises.
C30_BulkInsertKeepsEarlierRows ==
    [][\A t \in Names :
         (last'.op = "bulkInsert" /\ last'.tbl = t)
         => LET datas == last'.arg
                bad == {i \in 1..Len(datas) : ~Has(t) \/ NoObject(datas[i])}
                k == IF bad = {} THEN Len(datas) + 1
                     ELSE CHOOSE i \in bad : \A j \in bad : i <= j
                old == View.rows[t]
                new == View'.rows[t]
            IN  /\ (last'.err # "") <=> (bad # {})
                /\ ~Has(t) => last'.err \in {"", "TableNotFound"}
                /\ View'.has = View.has
                /\ \A u \in Names \ {t} : View'.rows[u] = View.rows[u]
                /\ Has(t) =>
                     /\ Len(new) = Len(old) + k - 1
                     /\ \A i \in 1..Len(old) : new[i] = old[i]
                     /\ \A i \in 1..(k - 1) :
                          /\ [new[Len(old) + i] EXCEPT !.id = datas[i].id] = datas[i]
                          /\ new[Len(old) + i].id.k = "number"]_vars

\* A bulkInsert of a row, null and another row that has raised, the table
\* holding one row more than before: the first of the three.
C30_Witness ==
    /\ last.op = "bulkInsert" /\ last.err = "TypeError"
    /\ Len(last.arg) = 3
    /\ ~NoObject(last.arg[1]) /\ NoObject(last.arg[2]) /\ ~NoObject(last.arg[3])
    /\ Len(RowsOf(last.tbl)) = Len(last.before) + 1
    /\ RowsOf(last.tbl)[Len(last.before) + 1].age = last.arg[1].age

\* C31: restore and the rollback of a transaction change no schema, trigger
\* or index; the rollback of a transaction whose callback dropped a table
\* brings the table back with the rows it had at entry and leaves it without
\* schema and without triggers; getSchema then returns nothing for it and an
\* insert into it invokes no trigger.
C31_RollbackLosesMetadata ==
    [][/\ last'.op \in {"restore", "transaction"} => UNCHANGED meta
       /\ \A t \in Names :
            (/\ last'.op = "transaction" /\ last'.err # ""
             /\ t \in last'.before.has /\ t \notin last'.left.has)
            => /\ t \in View'.has
               /\ View'.rows[t] = last'.before.rows[t]
               /\ triggers'[t] = <<>>
               /\ schemas'.of[t] = NoSchema
       /\ \A t \in Names :
            (last'.op = "getSchema" /\ last'.tbl = t /\ schemas.of[t] = NoSchema)
            => last'.ret \in {Undef, Null}
       /\ \A t \in Names :
            (last'.op = "insert" /\ last'.tbl = t /\ triggers[t] = <<>>)
            => last'.fired = <<>>]_vars

\* A transaction on "users" with a row, a schema and a trigger, whose
\* callback dropped the table, has just been rolled back: the table and its
\* row are back, its schema and trigger are not, those of "posts" are.
C31_Witness ==
    /\ last.op = "transaction" /\ last.err # ""
    /\ "users" \in last.before.has /\ "users" \notin last.left.has
    /\ last.before.rows["users"] # <<>>
    /\ Has("users") /\ RowsOf("users") = last.before.rows["users"]
    /\ triggers["users"] = <<>> /\ schemas.of["users"] = NoSchema
    /\ triggers["posts"] # <<>> /\ schemas.of["posts"] # NoSchema

\* C32: update(T, data) and delete(T) leave every row that does not satisfy
\* the where-conditions pending when the call started as it was, whatever
\* the triggers of T do.
C32_MutationNotWidened ==
    (last.op \in {"update", "delete"} /\ last.err = "")
    => \A i \in 1..Len(last.before) :
          ~EveryEqual(last.before[i], last.cond.whereConditions)
          => \E j \in 1..Len(RowsOf(last.tbl)) : RowsOf(last.tbl)[j] = last.before[i]

\* C33: a restore that raises 'Invalid backup data' leaves the rows of every
\* table and the relationships of the store as they were before the call.
C33_FailedRestoreChangesNothing ==
    [][(last'.op = "restore" /\ last'.err # "")
       => View' = View /\ RelView' = RelView]_vars

\* C34: with softDelete on, update and delete leave every row that was
\* already soft-deleted as it was, and invoke no trigger for it.
C34_SoftDeletedRowsUntouched ==
    (softDelete /\ last.op \in {"update", "delete"} /\ last.err = "")
    => \A i \in 1..Len(last.before) :
          Truthy(last.before[i].deleted_at)
          => /\ RowsOf(last.tbl)[i] = last.before[i]
             /\ \A k \in 1..Len(last.fired) : last.fired[k].old # last.before[i]

\* C35: when where-conditions are pending at the call of paginate, every row
\* of the data returned satisfies them, total is the number of visible rows
\* that satisfy them, and data holds no more rows than total.
C35_PaginateFiltersDataAndTotal ==
    (last.op = "paginate" /\ last.err = "" /\ last.cond.whereConditions # <<>>)
    => LET r == last.ret
           matching == {i \in 1..Len(Seen(last.before)) :
                          EveryEqual(Seen(last.before)[i], last.cond.whereConditions)}
       IN  /\ \A i \in 1..Len(r.data) :
                EveryEqual(r.data[i], last.cond.whereConditions)
           /\ r.total = Cardinality(matching)
           /\ Len(r.data) <= r.total

====
